---------------------------- MODULE Spec2Model ----------------------------
(***************************************************************************)
(* The commitment lock (contracts/commitment-lock/src/main.rs) as a state  *)
(* machine.  One run of auth() is one behaviour: the input cell under the  *)
(* lock exists in the initial state, every host load call is answered      *)
(* by the environment when the program makes it, and the run ends with an  *)
(* error code, a panic, or the exit status of the auth verifier.           *)
(*                                                                         *)
(* Byte strings are sequences; Rust's s[a..b] is Slice(s, a, b).  Integers *)
(* wider than 31 bits (u64 since values, u128 amounts) stay little-endian  *)
(* byte strings and are compared and subtracted byte by byte.              *)
(***************************************************************************)
EXTENDS Integers, Sequences, FiniteSets, TLC

\* ------------------------------------------------------------------ bounds

\* The largest number of pending HTLCs a committed witness script carries.
MaxHtlcs == 2

\* The longest witness of arbitrary content, after the sentinel.
MaxStrippedLen == 320

\* ------------------------------------------------------- program constants

EMPTY_WITNESS_ARGS == <<16, 0, 0, 0, 16, 0, 0, 0, 16, 0, 0, 0, 16, 0, 0, 0>>
MIN_WITNESS_SCRIPT_LEN == 48
HTLC_SCRIPT_LEN == 85
UNLOCK_WITH_SIGNATURE_LEN == 66
PREIMAGE_LEN == 32
MIN_WITNESS_LEN == MIN_WITNESS_SCRIPT_LEN + UNLOCK_WITH_SIGNATURE_LEN

\* Line 196: the value of the byte unlock_type that selects the settlement arm.
UnlockTypeSettlement == 255

\* ------------------------------------------------------------ byte strings

Rep(b, n) == [i \in 1..n |-> b]

\* Rust's s[a..b] (0-based, b exclusive).
Slice(s, a, b) == SubSeq(s, a + 1, b)

\* n.to_le_bytes() for a value that fits a model integer, on len bytes.
RECURSIVE LEBytes(_, _)
LEBytes(n, len) ==
    IF len = 0 THEN <<>> ELSE <<n % 256>> \o LEBytes(n \div 256, len - 1)

\* The value of a little-endian byte string whose value fits a model integer.
RECURSIVE LEValue(_)
LEValue(s) ==
    IF s = <<>> THEN 0 ELSE s[1] + 256 * LEValue(Tail(s))

\* Unsigned comparison of two little-endian byte strings of one length:
\* "lt", "eq" or "gt".
RECURSIVE CmpLE(_, _)
CmpLE(a, b) ==
    IF a = <<>> THEN "eq"
    ELSE LET n == Len(a)
         IN  IF a[n] < b[n] THEN "lt"
             ELSE IF a[n] > b[n] THEN "gt"
             ELSE CmpLE(SubSeq(a, 1, n - 1), SubSeq(b, 1, n - 1))

\* a - b on little-endian byte strings of one length, modulo 256^Len(a).
RECURSIVE SubLE(_, _, _)
SubLE(a, b, borrow) ==
    IF a = <<>> THEN <<>>
    ELSE LET d == a[1] - b[1] - borrow
         IN  <<d % 256>> \o SubLE(Tail(a), Tail(b), IF d < 0 THEN 1 ELSE 0)

\* u64 widened to u128 (`as u128`).
WidenU64(c) == c \o Rep(0, 8)

\* u128::from_le_bytes(d[0..16].try_into().unwrap())
U128FromLe(d) == Slice(d, 0, 16)

\* ------------------------------------------------------------------ hashes

\* A 32-byte digest.  The hash functions are collision free in the model: the
\* first byte of a digest stands for the whole message and the algorithm, so
\* two digests (or their 20-byte truncations) are equal exactly when the same
\* algorithm hashed the same message.
Digest(alg, m) == <<[alg |-> alg, pre |-> m]>> \o Rep(0, 31)

blake2b_256(m) == Digest("blake2b", m)

Sha256_digest(m) == Digest("sha256", m)

\* ------------------------------------------------------- time-lock values

\* ckb_std::since::Since over the 8 little-endian bytes of the u64: bit 63 is
\* the relative flag, bits 61..62 the metric (0 block number, 1 epoch with
\* fraction, 2 timestamp, 3 invalid), bits 0..55 the value.
SinceIsAbsolute(s) == s[8] \div 128 = 0

SinceMetric(s) == (s[8] \div 32) % 4

SinceValue(s) == SubSeq(s, 1, 7)

\* EpochNumberWithFraction: number in bits 0..23, index in bits 24..39,
\* length in bits 40..55.
EpochNumber(v) == LEValue(SubSeq(v, 1, 3))

EpochIndex(v) == LEValue(SubSeq(v, 4, 5))

EpochLength(v) == LEValue(SubSeq(v, 6, 7))

IntCmp(x, y) == IF x < y THEN "lt" ELSE IF x > y THEN "gt" ELSE "eq"

\* EpochNumberWithFraction::partial_cmp: by number, then by the fractions
\* index/length, cross-multiplied.
EpochCmp(a, b) ==
    IF EpochNumber(a) # EpochNumber(b)
    THEN IntCmp(EpochNumber(a), EpochNumber(b))
    ELSE IntCmp(EpochIndex(a) * EpochLength(b), EpochIndex(b) * EpochLength(a))

\* Since::partial_cmp: "none" unless both are absolute or both relative and
\* both carry the same valid metric.
SincePartialCmp(a, b) ==
    IF SinceIsAbsolute(a) # SinceIsAbsolute(b) THEN "none"
    ELSE IF SinceMetric(a) # SinceMetric(b) \/ SinceMetric(a) = 3 THEN "none"
    ELSE IF SinceMetric(a) = 1 THEN EpochCmp(SinceValue(a), SinceValue(b))
    ELSE CmpLE(SinceValue(a), SinceValue(b))

\* `since >= bound` on two Since values (PartialOrd::ge).
SinceGe(since, bound) == SincePartialCmp(since, bound) \in {"gt", "eq"}

\* Since::from_epoch(EpochNumberWithFraction::new(n, i, l), absolute)
SinceFromEpoch(n, i, l, absolute) ==
    LEBytes(n, 3) \o LEBytes(i, 2) \o LEBytes(l, 2)
        \o <<(IF absolute THEN 0 ELSE 128) + 32>>

\* Since::from_timestamp(t, absolute)
SinceFromTimestamp(t, absolute) ==
    LEBytes(t, 7) \o <<(IF absolute THEN 0 ELSE 128) + 64>>

\* Since::from_block_number(n, absolute)
SinceFromBlockNumber(n, absolute) ==
    LEBytes(n, 7) \o <<IF absolute THEN 0 ELSE 128>>

ZeroSince == Rep(0, 8)

\* ------------------------------------------------------------ HTLC records

\* struct Htlc(&[u8]) over one 85-byte chunk h of the witness script.
htlc_type(h) == IF h[1] % 2 = 0 THEN "Offered" ELSE "Received"

payment_hash_type(h) == IF (h[1] \div 2) % 2 = 0 THEN "Blake2b" ELSE "Sha256"

payment_amount(h) == Slice(h, 1, 17)

payment_hash(h) == Slice(h, 17, 37)

remote_htlc_pubkey_hash(h) == Slice(h, 37, 57)

local_htlc_pubkey_hash(h) == Slice(h, 57, 77)

htlc_expiry(h) == Slice(h, 77, 85)

\* Option<T>: None is the empty sequence, Some(x) the one-element sequence.
None == <<>>

Some(x) == <<x>>

\* ------------------------------------------------- the environment's values

\* The 20-byte hash of public key number k (k >= 1).
PubkeyHash(k) == Rep(k, 20)

LocalDelayPkh == PubkeyHash(1)

RevocationPkh == PubkeyHash(2)

RemoteHtlcPkh(j) == PubkeyHash(3 + 2 * j)

LocalHtlcPkh(j) == PubkeyHash(4 + 2 * j)

\* The delay of the tests: epoch 10 1/2, relative.
LocalDelayEpoch == SinceFromEpoch(10, 1, 2, FALSE)

\* The expiry of HTLC j: the tests' absolute timestamps, one day apart.
HtlcExpiryTime(j) == 1711976400 + 86400 * j

\* The payment amount of HTLC j: 5, 8, 11, ... * 10^8.
HtlcAmount(j) == 500000000 + 300000000 * j

\* The 32-byte preimage of HTLC j.
PreimageOf(j) == Rep(42 + j, 32)

\* An HTLC record as the channel parties serialize it.  flags is byte 0; alg
\* is the algorithm the payment hash was really made with.
HtlcRecord(j, flags, alg) ==
    <<flags>> \o LEBytes(HtlcAmount(j), 16)
        \o Slice(Digest(alg, PreimageOf(j)), 0, 20)
        \o RemoteHtlcPkh(j) \o LocalHtlcPkh(j)
        \o SinceFromTimestamp(HtlcExpiryTime(j), TRUE)

AlgOfFlags(flags) == IF (flags \div 2) % 2 = 0 THEN "blake2b" ELSE "sha256"

\* HTLC j as the tests lay it out when it is not the one under study: even
\* positions offered, odd positions received, Blake2b payment hash.
DefaultHtlc(j) == HtlcRecord(j, j % 2, "blake2b")

\* The variants of one HTLC: the four flag bytes with the payment hash made
\* as the flags say, and two records whose payment hash was made with the
\* other algorithm.
HtlcVariants(j) ==
    { HtlcRecord(j, f, AlgOfFlags(f)) : f \in 0..3 }
        \cup { HtlcRecord(j, 0, "sha256"), HtlcRecord(j, 3, "blake2b") }

WitnessBase == LocalDelayEpoch \o LocalDelayPkh \o RevocationPkh

\* The concatenation of a sequence of byte strings, by halves.
RECURSIVE Concat(_)
Concat(ss) ==
    IF ss = <<>> THEN <<>>
    ELSE IF Len(ss) = 1 THEN ss[1]
    ELSE LET half == Len(ss) \div 2
         IN  Concat(SubSeq(ss, 1, half)) \o Concat(SubSeq(ss, half + 1, Len(ss)))

\* The witness scripts a commitment cell may commit to: n pending HTLCs, one
\* of them (position v) in any variant.
CommittedScripts ==
    { WitnessBase }
        \cup UNION { UNION { { WitnessBase
                                 \o Concat([j \in 1..n |->
                                              IF j - 1 = v THEN h
                                              ELSE DefaultHtlc(j - 1)])
                               : h \in HtlcVariants(v) }
                             : v \in 0..(n - 1) }
                     : n \in 1..MaxHtlcs }

HtlcCount(W) == (Len(W) - MIN_WITNESS_SCRIPT_LEN) \div HTLC_SCRIPT_LEN

\* The lock argument of a cell committing to W.
LockArgs(W) == Slice(blake2b_256(W), 0, 20)

\* As many HTLCs as the byte unlock_type has values: one more than the indexes
\* below the settlement value.
ManyHtlcs == UnlockTypeSettlement + 1

\* A witness script with ManyHtlcs pending HTLCs, offered and received in turn.
ManyScript ==
    WitnessBase \o Concat([j \in 1..ManyHtlcs |-> DefaultHtlc((j - 1) % 2)])

\* The code hash and hash type of the commitment lock's own script.
ScriptCodeHash == "commitment_lock_code"

ScriptHashType == "type"

UdtScript == "udt_script"

\* The input cells under the lock: the committed script, the 20-byte lock
\* argument (or one of another length) and the optional type script.  The
\* capacity and the data of a cell are None while the transaction that made
\* the cell is not part of the behaviour: the host then answers with any value.
Cells ==
    { [committed |-> W, args |-> LockArgs(W), type |-> t,
       capacity |-> None, data |-> None]
        : W \in CommittedScripts, t \in {None, Some(UdtScript)} }
    \cup { [committed |-> WitnessBase, args |-> a, type |-> None,
            capacity |-> None, data |-> None]
             : a \in { Slice(blake2b_256(WitnessBase), 0, 19),
                       blake2b_256(WitnessBase) } }

\* The cells that commit to ManyHtlcs pending HTLCs.
ManyCells ==
    { [committed |-> ManyScript, args |-> LockArgs(ManyScript), type |-> t,
       capacity |-> None, data |-> None]
        : t \in {None, Some(UdtScript)} }

\* The hash of the transaction under validation, and the hash of another one.
TxHash == Rep(200, 32)

OtherTxHash == Rep(201, 32)

\* The 65-byte signature of message msg by key number k.
Signature(k, msg) == <<k>> \o msg \o Rep(0, 32)

\* The auth verifier (algorithm id 0): accepts a signature exactly when it was
\* made over the message by the key whose hash is pkh.
VerifierAccepts(sig, msg, pkh) ==
    /\ Len(sig) = 65
    /\ sig[1] >= 1
    /\ PubkeyHash(sig[1]) = pkh
    /\ SubSeq(sig, 2, 33) = msg

\* W with the HTLC record at position k taken out.
ElideHtlc(W, k) ==
    Slice(W, 0, MIN_WITNESS_SCRIPT_LEN + HTLC_SCRIPT_LEN * k)
        \o Slice(W, MIN_WITNESS_SCRIPT_LEN + HTLC_SCRIPT_LEN * (k + 1), Len(W))

\* A witness as the spender lays it out.
WitnessBytes(ws, unlock, sig, pre, layout) ==
    LET body == ws \o <<unlock>> \o sig \o pre
    IN  CASE layout = "sentinel"     -> EMPTY_WITNESS_ARGS \o body
          [] layout = "bad_sentinel" -> [EMPTY_WITNESS_ARGS EXCEPT ![5] = 0] \o body
          [] layout = "no_sentinel"  -> body
          [] layout = "extra40"      -> EMPTY_WITNESS_ARGS \o body \o Rep(0, 40)
          [] layout = "below_min"    -> EMPTY_WITNESS_ARGS \o SubSeq(body, 1, 100)
          [] layout = "short"        -> SubSeq(EMPTY_WITNESS_ARGS, 1, 10)

UnlockTypes == {255} \cup (0..MaxHtlcs)

\* The signatures a spender may attach for unlock type u.
SpenderSignatures(u) ==
    IF u = 255
    THEN { Signature(1, TxHash), Signature(2, TxHash), Signature(2, OtherTxHash) }
    ELSE { Signature(3 + 2 * u, TxHash), Signature(4 + 2 * u, TxHash),
           Signature(2, TxHash) }

\* The trailing preimages a spender may attach for unlock type u: none, the
\* one of the selected HTLC, the one of another HTLC.
SpenderPreimages(u) ==
    IF u = 255
    THEN { <<>>, PreimageOf(0) }
    ELSE { <<>>, PreimageOf(u), PreimageOf(u + 1) }

\* The witnesses the spender of a cell committing to ManyHtlcs or more HTLCs
\* may present: the byte 0xFF, which is also the index of HTLC 255, signed by
\* the revocation key, by the local-delay key, or by the key that claims HTLC
\* 255 with that HTLC's preimage; and the index of the HTLC before it, claimed
\* by its remote key with its preimage.
ManyWitnesses(W) ==
    LET n == HtlcCount(W)
    IN  { WitnessBytes(W, UnlockTypeSettlement, sg, <<>>, "sentinel")
            : sg \in { Signature(1, TxHash), Signature(2, TxHash) } }
        \cup { WitnessBytes(W, UnlockTypeSettlement, Signature(6, TxHash),
                            PreimageOf(1), "sentinel"),
               WitnessBytes(W, UnlockTypeSettlement - 1, Signature(3, TxHash),
                            PreimageOf(0), "sentinel") }

\* The witnesses the spender of a cell committing to W may present: the
\* committed script with every unlock type, signature and preimage; a script
\* that is not the committed one (the local-delay key replaced, or the last
\* HTLC dropped); and the committed script in a defective layout.
SpenderWitnesses(W) ==
    LET n == HtlcCount(W)
        replaced == Slice(W, 0, 8) \o PubkeyHash(9) \o Slice(W, 28, Len(W))
        others == {replaced} \cup (IF n > 0 THEN {ElideHtlc(W, n - 1)} ELSE {})
    IN  IF n >= ManyHtlcs THEN ManyWitnesses(W) ELSE
        UNION { { WitnessBytes(W, u, sg, pre, "sentinel")
                    : sg \in (IF u # 255 /\ u >= n THEN {Signature(2, TxHash)}
                              ELSE SpenderSignatures(u)),
                      pre \in (IF u # 255 /\ u >= n THEN {<<>>}
                               ELSE SpenderPreimages(u)) }
                  : u \in UnlockTypes }
        \cup { WitnessBytes(ws, u, Signature(9, TxHash), <<>>, "sentinel")
                 : ws \in others, u \in {255, 0} }
        \cup { WitnessBytes(W, u, Signature(2, TxHash), <<>>, layout)
                 : u \in {255, 0},
                   layout \in {"bad_sentinel", "no_sentinel", "extra40",
                               "below_min", "short"} }

\* The sentinel followed by zero bytes, of every length up to MaxStrippedLen:
\* presented to a first cell without HTLCs (the run does not look at the cell
\* before it has classified the length, so one cell shows every length).
LengthProbes(W, spent) ==
    IF HtlcCount(W) = 0 /\ Len(spent) = 1
    THEN { EMPTY_WITNESS_ARGS \o Rep(0, L) : L \in 0..MaxStrippedLen }
    ELSE {}

\* The values the host may report for load_input_since(0, GroupInput).
SinceValues ==
    { ZeroSince,
      SinceFromEpoch(10, 0, 1, FALSE),
      SinceFromEpoch(10, 1, 2, FALSE),
      SinceFromEpoch(12, 0, 1, FALSE),
      SinceFromEpoch(12, 0, 1, TRUE),
      SinceFromTimestamp(HtlcExpiryTime(0) - 1, TRUE),
      SinceFromTimestamp(HtlcExpiryTime(MaxHtlcs) + 1000, TRUE),
      SinceFromTimestamp(HtlcExpiryTime(MaxHtlcs) + 1000, FALSE),
      SinceFromBlockNumber(HtlcExpiryTime(MaxHtlcs) + 1000, TRUE) }

\* Capacities (u64) and token amounts (u128) of the input and output cells.
AmountValues ==
    { 2000000000, 1500000000, 1200000000, 700000000, 600000000, 100000000 }

InputAmountValues == { 2000000000, 600000000 }

Capacities == { LEBytes(v, 8) : v \in AmountValues }

InputCapacities == { LEBytes(v, 8) : v \in InputAmountValues }

\* Cell data: a 16-byte amount, an amount followed by further bytes, an
\* amount that a wrapped subtraction produces, or fewer than 16 bytes.
CellDatas ==
    { LEBytes(v, 16) : v \in AmountValues }
        \cup { LEBytes(1500000000, 16) \o <<1, 2, 3>> }
        \cup { SubLE(LEBytes(600000000, 16), LEBytes(HtlcAmount(1), 16), 0) }
        \cup { <<>> }

InputCellDatas ==
    { LEBytes(v, 16) : v \in InputAmountValues } \cup { LEBytes(600000000, 8) }

\* W with the two key hashes of its base exchanged.
ExchangeKeys(W) ==
    Slice(W, 0, 8) \o Slice(W, 28, 48) \o Slice(W, 8, 28) \o Slice(W, 48, Len(W))

\* The lock scripts output 0 may carry: the successors of W under the lock's
\* code, W itself, the first successor with the keys of the base exchanged,
\* args of another length; and the successors under another code or hash type.
OutputLocks(W) ==
    LET n == HtlcCount(W)
        unlocked == IF n >= ManyHtlcs THEN {UnlockTypeSettlement - 1} ELSE 0..(n - 1)
        successors == { LockArgs(ElideHtlc(W, j)) : j \in unlocked }
        rebased == IF n > 0 THEN { LockArgs(ExchangeKeys(ElideHtlc(W, 0))) } ELSE {}
    IN  { [code_hash |-> ScriptCodeHash, hash_type |-> ScriptHashType, args |-> a]
            : a \in successors \cup rebased \cup { LockArgs(W), LEBytes(7, 11) } }
        \cup { [code_hash |-> c, hash_type |-> t, args |-> a]
                 : a \in successors,
                   <<c, t>> \in { <<"other_code", ScriptHashType>>,
                                  <<ScriptCodeHash, "data1">> } }

\* The type scripts output 0 may carry.
OutputTypes == { None, Some(UdtScript), Some("other_udt_script") }

SysErrors == { "IndexOutOfBound", "ItemMissing", "LengthNotEnough", "Encoding", "Unknown" }

\* ------------------------------------------------------------------- state

VARIABLES
    cell,      \* the input cell under the lock: committed script, args, type
    pc,        \* the program's position in auth()
    result,    \* "" while running, then how the run ended
    m,         \* the locals of auth()
    host,      \* what the host has answered so far (None: not asked)
    chain,     \* the HTLC counts of the commitment cells spent so far, in order
    ledger     \* the amounts of the accepted HTLC-path spends so far, in order

vars == <<cell, pc, result, m, host, chain, ledger>>

\* The locals of auth() when a run starts.
InitialLocals ==
    [ type_script |-> None, args |-> <<>>, witness |-> <<>>,
      witness_len |-> 0, pending_htlcs |-> 0, preimage |-> None,
      witness_script_len |-> 0, unlock_type |-> 0, signature |-> <<>>,
      message |-> <<>>, pubkey_hash |-> Rep(0, 20), new_amount |-> <<>>,
      new_witness_script |-> <<>>, i |-> 0, path |-> "none",
      exec_args |-> None ]

\* The host has not been asked anything yet.
NoAnswers ==
    [ second_since |-> None, witness |-> None, since |-> None,
      in_capacity |-> None, in_data |-> None, out_lock |-> None,
      out_capacity |-> None, out_type |-> None, out_data |-> None,
      failed |-> None ]

Init ==
    /\ cell \in Cells
    /\ pc = "check_inputs"
    /\ result = ""
    /\ m = InitialLocals
    /\ host = NoAnswers
    /\ chain = <<HtlcCount(cell.committed)>>
    /\ ledger = <<>>

\* enum Error (repr i8, IndexOutOfBound = 1): the position of a name is its
\* exit code.
ErrorNames ==
    <<"IndexOutOfBound", "ItemMissing", "LengthNotEnough", "Encoding",
      "MultipleInputs", "InvalidSince", "InvalidUnlockType", "InvalidHtlcType",
      "ArgsLenError", "WitnessLenError", "EmptyWitnessArgsError",
      "WitnessHashError", "OutputCapacityError", "OutputLockError",
      "OutputTypeError", "OutputUdtAmountError", "PreimageError", "AuthError">>

\* program_entry: Err(err) => err as i8.
ExitCode(e) == CHOOSE k \in 1..Len(ErrorNames) : ErrorNames[k] = e

\* FromSysError with the arm of LengthNotEnough giving Encoding.
FromSysError_LengthAsEncoding(e) ==
    IF e = "Unknown" THEN "Panic"
    ELSE IF e = "LengthNotEnough" THEN "Encoding"
    ELSE e

\* impl From<SysError> for Error: the four host errors keep their own code, an
\* unknown one panics.
FromSysError(e) == IF e = "Unknown" THEN "Panic" ELSE e

\* `return Err(e)` (or a panic): the run ends.
Return(e) == pc' = "done" /\ result' = e

\* One of the host calls `calls` answers with an error and `?` returns it;
\* `answers` is what the host has answered so far, to which the failed call is
\* added.
HostError(calls, answers) ==
    \E call \in calls, e \in SysErrors :
      /\ Return(FromSysError(e))
      /\ host' = [answers EXCEPT !.failed = Some([call |-> call, err |-> e])]

\* ----------------------------------------------------------------- auth()

\* What the host may answer to load_input_since(1, GroupInput): the since of
\* a second input of the group, or IndexOutOfBound when there is none.
SecondSinceAnswers ==
    { [ok |-> TRUE, value |-> ZeroSince],
      [ok |-> TRUE, value |-> SinceFromEpoch(12, 0, 1, FALSE)],
      [ok |-> FALSE, value |-> "IndexOutOfBound"] }

\* SecondInputFound with the test inverted.
SecondInputFound_Inverted(answer) == ~answer.ok

\* Line 137: load_input_since(1, Source::GroupInput).is_ok().
SecondInputFound(answer) == answer.ok

\* Lines 137-142: a second group input is rejected; load the input's type.
CheckInputs ==
    /\ pc = "check_inputs"
    /\ \E answer \in SecondSinceAnswers :
         LET answered == [host EXCEPT !.second_since = Some(answer)]
         IN  IF SecondInputFound(answer)
             THEN Return("MultipleInputs") /\ host' = answered /\ UNCHANGED m
             ELSE \/ /\ HostError({"load_cell_type(0, GroupInput)"}, answered)
                     /\ UNCHANGED m
                  \/ /\ pc' = "load_script"
                     /\ host' = answered
                     /\ m' = [m EXCEPT !.type_script = cell.type]
                     /\ UNCHANGED result
    /\ UNCHANGED <<cell, chain, ledger>>

\* ArgsLenAccepted asking for at least 20 bytes.
ArgsLenAccepted_AtLeast(args) == Len(args) >= 20

\* Line 146: args.len() != 20 is rejected.
ArgsLenAccepted(args) == Len(args) = 20

\* Lines 144-148: the script's args must be 20 bytes.
LoadScript ==
    /\ pc = "load_script"
    /\ \/ /\ HostError({"load_script()"}, host)
          /\ UNCHANGED <<cell, chain, ledger, m>>
       \/ /\ IF ~ArgsLenAccepted(cell.args)
             THEN Return("ArgsLenError") /\ m' = [m EXCEPT !.args = cell.args]
             ELSE /\ pc' = "load_witness"
                  /\ m' = [m EXCEPT !.args = cell.args]
                  /\ UNCHANGED result
          /\ UNCHANGED <<cell, chain, ledger, host>>

\* SentinelMatches comparing the first four bytes only.
SentinelMatches_FirstWord(drained) ==
    SubSeq(drained, 1, 4) = SubSeq(EMPTY_WITNESS_ARGS, 1, 4)

\* Lines 150-154: the drained 16 bytes are the sentinel.
SentinelMatches(drained) == drained = EMPTY_WITNESS_ARGS

\* EnvelopeError testing the minimum length before the sentinel.
EnvelopeError_LengthFirst(drained, rest) ==
    IF Len(rest) < MIN_WITNESS_LEN THEN "WitnessLenError"
    ELSE IF ~SentinelMatches(drained) THEN "EmptyWitnessArgsError"
    ELSE ""

\* Lines 150-160: the sentinel is tested first, the minimum length of what
\* follows it second; "" when both tests pass.
EnvelopeError(drained, rest) ==
    IF ~SentinelMatches(drained) THEN "EmptyWitnessArgsError"
    ELSE IF Len(rest) < MIN_WITNESS_LEN THEN "WitnessLenError"
    ELSE ""

\* Lines 149-160: load the witness, drain the 16-byte sentinel (drain panics
\* on a shorter witness) and require the minimum length.
LoadWitness ==
    /\ pc = "load_witness"
    /\ \/ /\ HostError({"load_witness(0, GroupInput)"}, host)
          /\ UNCHANGED <<cell, chain, ledger, m>>
       \/ \E w \in SpenderWitnesses(cell.committed)
                      \cup LengthProbes(cell.committed, chain) :
            /\ host' = [host EXCEPT !.witness = Some(w)]
            /\ IF Len(w) < Len(EMPTY_WITNESS_ARGS)
               THEN Return("Panic") /\ UNCHANGED m
               ELSE LET drained == Slice(w, 0, Len(EMPTY_WITNESS_ARGS))
                        rest == Slice(w, Len(EMPTY_WITNESS_ARGS), Len(w))
                    IN  /\ m' = [m EXCEPT !.witness = rest, !.witness_len = Len(rest)]
                        /\ IF EnvelopeError(drained, rest) # ""
                           THEN Return(EnvelopeError(drained, rest))
                           ELSE pc' = "classify" /\ UNCHANGED result
            /\ UNCHANGED <<cell, chain, ledger>>

\* ClassifyWitnessLen taking every remainder up to PREIMAGE_LEN for a preimage.
ClassifyWitnessLen_RemainderUpTo32(witness_len) ==
    LET r == (witness_len - MIN_WITNESS_LEN) % HTLC_SCRIPT_LEN
    IN  IF r = 0
        THEN [ok |-> TRUE,
              pending_htlcs |-> (witness_len - MIN_WITNESS_LEN) \div HTLC_SCRIPT_LEN,
              has_preimage |-> FALSE]
        ELSE IF r <= PREIMAGE_LEN
        THEN [ok |-> TRUE,
              pending_htlcs |-> (witness_len - PREIMAGE_LEN - MIN_WITNESS_LEN)
                                   \div HTLC_SCRIPT_LEN,
              has_preimage |-> TRUE]
        ELSE [ok |-> FALSE, pending_htlcs |-> 0, has_preimage |-> FALSE]

\* ClassifyWitnessLen with the preimage arm as the default arm of the match.
ClassifyWitnessLen_DefaultPreimage(witness_len) ==
    IF (witness_len - MIN_WITNESS_LEN) % HTLC_SCRIPT_LEN = 0
    THEN [ok |-> TRUE,
          pending_htlcs |-> (witness_len - MIN_WITNESS_LEN) \div HTLC_SCRIPT_LEN,
          has_preimage |-> FALSE]
    ELSE [ok |-> TRUE,
          pending_htlcs |-> (witness_len - PREIMAGE_LEN - MIN_WITNESS_LEN)
                               \div HTLC_SCRIPT_LEN,
          has_preimage |-> TRUE]

\* Lines 161-171: the number of pending HTLCs and the presence of a preimage,
\* from the witness length alone.  ok is FALSE for a length that is rejected.
ClassifyWitnessLen(witness_len) ==
    IF witness_len = MIN_WITNESS_LEN
    THEN [ok |-> TRUE, pending_htlcs |-> 0, has_preimage |-> FALSE]
    ELSE LET r == (witness_len - MIN_WITNESS_LEN) % HTLC_SCRIPT_LEN
         IN  IF r = 0
             THEN [ok |-> TRUE,
                   pending_htlcs |-> (witness_len - MIN_WITNESS_LEN) \div HTLC_SCRIPT_LEN,
                   has_preimage |-> FALSE]
             ELSE IF r = PREIMAGE_LEN
             THEN [ok |-> TRUE,
                   pending_htlcs |-> (witness_len - PREIMAGE_LEN - MIN_WITNESS_LEN)
                                        \div HTLC_SCRIPT_LEN,
                   has_preimage |-> TRUE]
             ELSE [ok |-> FALSE, pending_htlcs |-> 0, has_preimage |-> FALSE]

\* Lines 161-179: classify the length and locate the end of the witness script.
ClassifyLength ==
    /\ pc = "classify"
    /\ LET c == ClassifyWitnessLen(m.witness_len)
       IN  IF ~c.ok
           THEN Return("WitnessLenError") /\ UNCHANGED m
           ELSE /\ pc' = "commitment_check"
                /\ m' = [m EXCEPT
                           !.pending_htlcs = c.pending_htlcs,
                           !.preimage =
                               IF c.has_preimage
                               THEN Some(Slice(m.witness, m.witness_len - PREIMAGE_LEN,
                                               m.witness_len))
                               ELSE None,
                           !.witness_script_len =
                               m.witness_len
                                 - (IF c.has_preimage
                                    THEN UNLOCK_WITH_SIGNATURE_LEN + PREIMAGE_LEN
                                    ELSE UNLOCK_WITH_SIGNATURE_LEN)]
                /\ UNCHANGED result
    /\ UNCHANGED <<cell, chain, ledger, host>>

\* WitnessHashMatches comparing bytes 1..20 of the hash and of the args.
WitnessHashMatches_SkipsFirstByte(witness_script, args) ==
    Slice(blake2b_256(witness_script), 1, 20) = Slice(args, 1, 20)

\* Line 180: the witness script hashes to the script args.
WitnessHashMatches(witness_script, args) ==
    Slice(blake2b_256(witness_script), 0, 20) = Slice(args, 0, 20)

\* Lines 173-194: the commitment check, then unlock_type, the signature and
\* the transaction hash.
CommitmentCheck ==
    /\ pc = "commitment_check"
    /\ IF ~WitnessHashMatches(Slice(m.witness, 0, m.witness_script_len), m.args)
       THEN Return("WitnessHashError") /\ UNCHANGED <<m, host>>
       ELSE \/ HostError({"load_tx_hash()"}, host) /\ UNCHANGED m
            \/ /\ pc' = "dispatch"
               /\ m' = [m EXCEPT
                          !.unlock_type = m.witness[m.witness_script_len + 1],
                          !.signature = Slice(m.witness, m.witness_script_len + 1,
                                              m.witness_script_len + 66),
                          !.message = TxHash]
               /\ UNCHANGED <<result, host>>
    /\ UNCHANGED <<cell, chain, ledger>>

\* TimeLockMet with the operands of the comparison exchanged.
TimeLockMet_Reversed(raw_since_value, bound) == SinceGe(bound, raw_since_value)

\* TimeLockMet comparing the raw 64-bit values.
TimeLockMet_RawCompare(raw_since_value, bound) == CmpLE(raw_since_value, bound) # "lt"

\* Lines 204-207, 256-258, 285-287: Since::new(raw_since_value) >= Since::new(bound).
TimeLockMet(raw_since_value, bound) == SinceGe(raw_since_value, bound)

\* PreimageRejected hashing with Blake2b whatever the HTLC's algorithm.
PreimageRejected_AlwaysBlake2b(preimage, h) ==
    IF preimage = None THEN TRUE
    ELSE payment_hash(h) # Slice(blake2b_256(preimage[1]), 0, 20)

\* Lines 239-248, 269-278: the preimage is missing, or its truncated hash under
\* the HTLC's algorithm is not the payment hash.
PreimageRejected(preimage, h) ==
    IF preimage = None THEN TRUE
    ELSE IF payment_hash_type(h) = "Blake2b"
    THEN payment_hash(h) # Slice(blake2b_256(preimage[1]), 0, 20)
    ELSE payment_hash(h) # Slice(Sha256_digest(preimage[1]), 0, 20)

\* SettlementUnlock with the test of the input since inverted.
SettlementUnlock_InvertedSince(witness, sv) ==
    IF sv # ZeroSince
    THEN [err |-> "", path |-> "revocation", pubkey_hash |-> Slice(witness, 28, 48)]
    ELSE IF TimeLockMet(sv, Slice(witness, 0, 8))
    THEN [err |-> "", path |-> "local_delay", pubkey_hash |-> Slice(witness, 8, 28)]
    ELSE [err |-> "InvalidSince", path |-> "local_delay"]

\* SettlementUnlock with the revocation key read from the local-delay slice.
SettlementUnlock_WrongSlice(witness, sv) ==
    IF sv = ZeroSince
    THEN [err |-> "", path |-> "revocation", pubkey_hash |-> Slice(witness, 8, 28)]
    ELSE IF TimeLockMet(sv, Slice(witness, 0, 8))
    THEN [err |-> "", path |-> "local_delay", pubkey_hash |-> Slice(witness, 8, 28)]
    ELSE [err |-> "InvalidSince", path |-> "local_delay"]

\* Lines 196-212: what unlock type 0xFF does for the input since sv: with
\* since = 0 the revocation key signs, otherwise the local-delay key once the
\* delay witness[0..8] has passed.
SettlementUnlock(witness, sv) ==
    IF sv = ZeroSince
    THEN [err |-> "", path |-> "revocation", pubkey_hash |-> Slice(witness, 28, 48)]
    ELSE IF TimeLockMet(sv, Slice(witness, 0, 8))
    THEN [err |-> "", path |-> "local_delay", pubkey_hash |-> Slice(witness, 8, 28)]
    ELSE [err |-> "InvalidSince", path |-> "local_delay"]

\* AfterSettlementUnlock going through the output check of the HTLC arm.
AfterSettlementUnlock_ChecksOutput == "check_lock"

\* Lines 212-213, 341: the 0xFF arm has no output check; control falls through
\* to the exec of the verifier.
AfterSettlementUnlock == "exec"

\* Lines 196-212: unlock type 0xFF, revocation or local delay.
UnlockSettlement ==
    /\ pc = "dispatch"
    /\ m.unlock_type = 255
    /\ \/ /\ HostError({"load_input_since(0, GroupInput)"}, host)
          /\ UNCHANGED m
       \/ \E sv \in SinceValues :
            LET u == SettlementUnlock(m.witness, sv)
            IN  /\ host' = [host EXCEPT !.since = Some(sv)]
                /\ IF u.err # ""
                   THEN /\ m' = [m EXCEPT !.path = u.path]
                        /\ Return(u.err)
                   ELSE /\ m' = [m EXCEPT !.pubkey_hash = u.pubkey_hash,
                                          !.path = u.path]
                        /\ pc' = AfterSettlementUnlock
                        /\ UNCHANGED result
    /\ UNCHANGED <<cell, chain, ledger>>

\* UnlockTypeInvalid with a strict comparison.
UnlockTypeInvalid_OffByOne(unlock_htlc, pending_htlcs) == unlock_htlc > pending_htlcs

\* Line 215: unlock_htlc >= pending_htlcs is rejected.
UnlockTypeInvalid(unlock_htlc, pending_htlcs) == unlock_htlc >= pending_htlcs

\* SuccessorBase with the two key hashes of the base exchanged.
SuccessorBase_KeysExchanged(witness) ==
    Slice(witness, 0, 8) \o Slice(witness, 28, 48) \o Slice(witness, 8, 28)

\* Lines 225-226: the successor's witness script begins with the base of the
\* spent one, witness[0..MIN_WITNESS_SCRIPT_LEN].
SuccessorBase(witness) == Slice(witness, 0, MIN_WITNESS_SCRIPT_LEN)

\* What the host answers for the data and the capacity of the input cell: what
\* the transaction that made the cell gave it, when that is known.
InputDataAnswers == IF cell.data # None THEN {cell.data[1]} ELSE InputCellDatas

InputCapacityAnswers ==
    IF cell.capacity # None THEN {cell.capacity[1]} ELSE InputCapacities

\* Lines 214-226: an HTLC index must be pending; the amount to carry over
\* starts as the input's token amount (typed) or capacity (untyped).
HtlcBegin ==
    /\ pc = "dispatch"
    /\ m.unlock_type # 255
    /\ IF UnlockTypeInvalid(m.unlock_type, m.pending_htlcs)
       THEN Return("InvalidUnlockType") /\ UNCHANGED <<m, host>>
       ELSE \/ /\ HostError({IF m.type_script # None
                              THEN "load_cell_data(0, GroupInput)"
                              ELSE "load_cell_capacity(0, GroupInput)"}, host)
               /\ UNCHANGED m
            \/ /\ m.type_script # None
               /\ \E d \in InputDataAnswers :
                    /\ host' = [host EXCEPT !.in_data = Some(d)]
                    /\ IF Len(d) < 16
                       THEN Return("Panic") /\ UNCHANGED m
                       ELSE /\ m' = [m EXCEPT
                                       !.new_amount = U128FromLe(d),
                                       !.new_witness_script =
                                           <<SuccessorBase(m.witness)>>,
                                       !.i = 0]
                            /\ pc' = "htlc_loop"
                            /\ UNCHANGED result
            \/ /\ m.type_script = None
               /\ \E c \in InputCapacityAnswers :
                    /\ host' = [host EXCEPT !.in_capacity = Some(c)]
                    /\ m' = [m EXCEPT
                               !.new_amount = WidenU64(c),
                               !.new_witness_script =
                                   <<SuccessorBase(m.witness)>>,
                               !.i = 0]
                    /\ pc' = "htlc_loop"
                    /\ UNCHANGED result
    /\ UNCHANGED <<cell, chain, ledger>>

\* The i-th chunk of witness[MIN_WITNESS_SCRIPT_LEN..witness_script_len].chunks(85).
HtlcChunk(witness, i) ==
    Slice(witness, MIN_WITNESS_SCRIPT_LEN + HTLC_SCRIPT_LEN * i,
          MIN_WITNESS_SCRIPT_LEN + HTLC_SCRIPT_LEN * (i + 1))

\* HtlcUnlock with the deduction of the received-refund arm also made in the
\* received-claim arm.
HtlcUnlock_DeductOnLocalClaim(h, sv, preimage) ==
    IF sv = ZeroSince
    THEN IF PreimageRejected(preimage, h)
         THEN [err |-> "PreimageError", path |-> "htlc_claim"]
         ELSE [err |-> "", path |-> "htlc_claim", deduct |-> TRUE,
               pubkey_hash |-> IF htlc_type(h) = "Offered"
                               THEN remote_htlc_pubkey_hash(h)
                               ELSE local_htlc_pubkey_hash(h)]
    ELSE IF TimeLockMet(sv, htlc_expiry(h))
         THEN [err |-> "", path |-> "htlc_refund",
               deduct |-> htlc_type(h) = "Received",
               pubkey_hash |-> IF htlc_type(h) = "Offered"
                               THEN local_htlc_pubkey_hash(h)
                               ELSE remote_htlc_pubkey_hash(h)]
         ELSE [err |-> "InvalidSince", path |-> "htlc_refund"]

\* HtlcUnlock with the received-refund arm taken without the expiry test.
HtlcUnlock_NoExpiryOnReceived(h, sv, preimage) ==
    IF sv = ZeroSince
    THEN IF PreimageRejected(preimage, h)
         THEN [err |-> "PreimageError", path |-> "htlc_claim"]
         ELSE [err |-> "", path |-> "htlc_claim",
               deduct |-> htlc_type(h) = "Offered",
               pubkey_hash |-> IF htlc_type(h) = "Offered"
                               THEN remote_htlc_pubkey_hash(h)
                               ELSE local_htlc_pubkey_hash(h)]
    ELSE IF htlc_type(h) = "Received"
         THEN [err |-> "", path |-> "htlc_refund", deduct |-> TRUE,
               pubkey_hash |-> remote_htlc_pubkey_hash(h)]
         ELSE IF TimeLockMet(sv, htlc_expiry(h))
         THEN [err |-> "", path |-> "htlc_refund", deduct |-> FALSE,
               pubkey_hash |-> local_htlc_pubkey_hash(h)]
         ELSE [err |-> "InvalidSince", path |-> "htlc_refund"]

\* HtlcUnlock with the received arm's keys as in the offered arm.
HtlcUnlock_ReceivedKeysAsOffered(h, sv, preimage) ==
    IF sv = ZeroSince
    THEN IF PreimageRejected(preimage, h)
         THEN [err |-> "PreimageError", path |-> "htlc_claim"]
         ELSE [err |-> "", path |-> "htlc_claim",
               deduct |-> htlc_type(h) = "Offered",
               pubkey_hash |-> remote_htlc_pubkey_hash(h)]
    ELSE IF TimeLockMet(sv, htlc_expiry(h))
         THEN [err |-> "", path |-> "htlc_refund",
               deduct |-> htlc_type(h) = "Received",
               pubkey_hash |-> local_htlc_pubkey_hash(h)]
         ELSE [err |-> "InvalidSince", path |-> "htlc_refund"]

\* HtlcUnlock refusing a refund to which a preimage is attached.
HtlcUnlock_PreimageOnRefund(h, sv, preimage) ==
    IF sv = ZeroSince
    THEN IF PreimageRejected(preimage, h)
         THEN [err |-> "PreimageError", path |-> "htlc_claim"]
         ELSE [err |-> "", path |-> "htlc_claim",
               deduct |-> (htlc_type(h) = "Offered"),
               pubkey_hash |-> IF htlc_type(h) = "Offered"
                               THEN remote_htlc_pubkey_hash(h)
                               ELSE local_htlc_pubkey_hash(h)]
    ELSE IF preimage # None
         THEN [err |-> "PreimageError", path |-> "htlc_refund"]
         ELSE IF TimeLockMet(sv, htlc_expiry(h))
         THEN [err |-> "", path |-> "htlc_refund",
               deduct |-> (htlc_type(h) # "Offered"),
               pubkey_hash |-> IF htlc_type(h) = "Offered"
                               THEN local_htlc_pubkey_hash(h)
                               ELSE remote_htlc_pubkey_hash(h)]
         ELSE [err |-> "InvalidSince", path |-> "htlc_refund"]

\* Lines 233-295: what unlocking HTLC h does for the input since sv and the
\* optional preimage: an error, or the key that must sign, whether the payment
\* amount is deducted, and the path taken.
HtlcUnlock(h, sv, preimage) ==
    IF htlc_type(h) = "Offered"
    THEN IF sv = ZeroSince
         THEN IF PreimageRejected(preimage, h)
              THEN [err |-> "PreimageError", path |-> "htlc_claim"]
              ELSE [err |-> "", path |-> "htlc_claim", deduct |-> TRUE,
                    pubkey_hash |-> remote_htlc_pubkey_hash(h)]
         ELSE IF TimeLockMet(sv, htlc_expiry(h))
              THEN [err |-> "", path |-> "htlc_refund", deduct |-> FALSE,
                    pubkey_hash |-> local_htlc_pubkey_hash(h)]
              ELSE [err |-> "InvalidSince", path |-> "htlc_refund"]
    ELSE IF sv = ZeroSince
         THEN IF PreimageRejected(preimage, h)
              THEN [err |-> "PreimageError", path |-> "htlc_claim"]
              ELSE [err |-> "", path |-> "htlc_claim", deduct |-> FALSE,
                    pubkey_hash |-> local_htlc_pubkey_hash(h)]
         ELSE IF TimeLockMet(sv, htlc_expiry(h))
              THEN [err |-> "", path |-> "htlc_refund", deduct |-> TRUE,
                    pubkey_hash |-> remote_htlc_pubkey_hash(h)]
              ELSE [err |-> "InvalidSince", path |-> "htlc_refund"]

\* KeepsChunk keeping every chunk, so that the loop never unlocks one.
KeepsChunk_Always(i, unlock_htlc) == TRUE

\* Line 233/296: a chunk other than the unlocked one is kept for the successor.
KeepsChunk(i, unlock_htlc) == i # unlock_htlc

\* AfterChunk going from the last chunk straight to the verifier.
AfterChunk_SkipsOutput(i, pending_htlcs) ==
    IF i + 1 < pending_htlcs THEN "htlc_loop" ELSE "exec"

\* Where the loop goes after chunk i.
AfterChunk(i, pending_htlcs) ==
    IF i + 1 < pending_htlcs THEN "htlc_loop" ELSE "check_lock"

\* Lines 228-299: one iteration of the loop over the HTLC chunks.  The
\* subtraction `new_amount -= payment_amount` that underflows panics in a
\* build with overflow checks and wraps in one without.
HtlcLoopStep ==
    /\ pc = "htlc_loop"
    /\ m.i < m.pending_htlcs
    /\ LET h == HtlcChunk(m.witness, m.i)
       IN  IF KeepsChunk(m.i, m.unlock_type)
           THEN /\ m' = [m EXCEPT !.new_witness_script = Append(@, h), !.i = @ + 1]
                /\ pc' = AfterChunk(m.i, m.pending_htlcs)
                /\ UNCHANGED <<result, host>>
           ELSE \/ /\ HostError({"load_input_since(0, GroupInput)"}, host)
                   /\ UNCHANGED m
                \/ \E sv \in SinceValues :
                     LET u == HtlcUnlock(h, sv, m.preimage)
                     IN  /\ host' = [host EXCEPT !.since = Some(sv)]
                         /\ IF u.err # ""
                            THEN /\ m' = [m EXCEPT !.path = u.path]
                                 /\ Return(u.err)
                            ELSE IF ~u.deduct
                            THEN /\ m' = [m EXCEPT !.path = u.path,
                                                   !.pubkey_hash = u.pubkey_hash,
                                                   !.i = @ + 1]
                                 /\ pc' = AfterChunk(m.i, m.pending_htlcs)
                                 /\ UNCHANGED result
                            ELSE \E wraps \in (IF CmpLE(m.new_amount, payment_amount(h)) = "lt"
                                               THEN BOOLEAN ELSE {TRUE}) :
                                   IF ~wraps
                                   THEN /\ m' = [m EXCEPT !.path = u.path]
                                        /\ Return("Panic")
                                   ELSE /\ m' = [m EXCEPT
                                                   !.path = u.path,
                                                   !.pubkey_hash = u.pubkey_hash,
                                                   !.new_amount =
                                                       SubLE(@, payment_amount(h), 0),
                                                   !.i = @ + 1]
                                        /\ pc' = AfterChunk(m.i, m.pending_htlcs)
                                        /\ UNCHANGED result
    /\ UNCHANGED <<cell, chain, ledger>>

\* OutputLockAccepted comparing the output lock with the running script itself.
OutputLockAccepted_SameArgs(output_lock, expected_lock_args) ==
    /\ output_lock.code_hash = ScriptCodeHash
    /\ output_lock.hash_type = ScriptHashType
    /\ output_lock.args = m.args

\* OutputLockAccepted without the comparison of the hash type.
OutputLockAccepted_NoHashType(output_lock, expected_lock_args) ==
    /\ output_lock.code_hash = ScriptCodeHash
    /\ output_lock.args = expected_lock_args

\* Lines 304-306: the output lock is the script's own code with the expected args.
OutputLockAccepted(output_lock, expected_lock_args) ==
    /\ output_lock.code_hash = ScriptCodeHash
    /\ output_lock.hash_type = ScriptHashType
    /\ output_lock.args = expected_lock_args

\* AfterOutputLock sending every cell through the checks of a typed one.
AfterOutputLock_AlwaysTyped(type_script) == "check_capacity_typed"

\* AfterOutputLock going to the type check first on a typed cell.
AfterOutputLock_TypeFirst(type_script) ==
    IF type_script # None THEN "check_type" ELSE "check_capacity"

\* Lines 311-337: after the lock of output 0, a typed cell has its capacity
\* checked first (then its type, then its amount), an untyped one its capacity.
AfterOutputLock(type_script) ==
    IF type_script # None THEN "check_capacity_typed" ELSE "check_capacity"

\* Lines 301-309: output 0 must be locked by the successor commitment.
CheckOutputLock ==
    /\ pc = "check_lock"
    /\ \/ HostError({"load_cell_lock(0, Output)"}, host)
       \/ \E output_lock \in OutputLocks(cell.committed) :
            LET expected_lock_args ==
                    Slice(blake2b_256(Concat(m.new_witness_script)), 0, 20)
            IN  /\ host' = [host EXCEPT !.out_lock = Some(output_lock)]
                /\ IF ~OutputLockAccepted(output_lock, expected_lock_args)
                   THEN Return("OutputLockError")
                   ELSE /\ pc' = AfterOutputLock(m.type_script)
                        /\ UNCHANGED result
    /\ UNCHANGED <<cell, chain, ledger, m>>

\* Line 316: a typed successor keeps the input's capacity.
OutputCapacityKept(output_capacity, input_capacity) ==
    output_capacity = input_capacity

\* OutputTypeKept asking only that the output has some type script.
OutputTypeKept_AnyType(output_type, type_script) == output_type # None

\* Line 321: a typed successor keeps the input's type script.
OutputTypeKept(output_type, type_script) == output_type = type_script

\* Lines 326-327: the successor's token amount is new_amount.
OutputUdtAmountAccepted(output_data, new_amount) ==
    U128FromLe(output_data) = new_amount

\* OutputCapacityAccepted asking for at least new_amount.
OutputCapacityAccepted_AtLeast(output_capacity, new_amount) ==
    CmpLE(WidenU64(output_capacity), new_amount) # "lt"

\* Lines 333-334: the successor's capacity, widened, is new_amount.
OutputCapacityAccepted(output_capacity, new_amount) ==
    WidenU64(output_capacity) = new_amount

\* Lines 314-318: a typed successor keeps the input's capacity.
CheckOutputCapacityTyped ==
    /\ pc = "check_capacity_typed"
    /\ \/ HostError({"load_cell_capacity(0, Output)",
                     "load_cell_capacity(0, GroupInput)"}, host)
       \/ \E output_capacity \in Capacities, input_capacity \in InputCapacityAnswers :
            /\ host' = [host EXCEPT !.out_capacity = Some(output_capacity),
                                    !.in_capacity = Some(input_capacity)]
            /\ IF ~OutputCapacityKept(output_capacity, input_capacity)
               THEN Return("OutputCapacityError")
               ELSE pc' = "check_type" /\ UNCHANGED result
    /\ UNCHANGED <<cell, chain, ledger, m>>

\* Lines 320-323: a typed successor keeps the input's type script.
CheckOutputType ==
    /\ pc = "check_type"
    /\ \/ HostError({"load_cell_type(0, Output)"}, host)
       \/ \E output_type \in OutputTypes :
            /\ host' = [host EXCEPT !.out_type = Some(output_type)]
            /\ IF ~OutputTypeKept(output_type, m.type_script)
               THEN Return("OutputTypeError")
               ELSE pc' = "check_udt_amount" /\ UNCHANGED result
    /\ UNCHANGED <<cell, chain, ledger, m>>

\* Lines 325-329: a typed successor holds new_amount tokens (the slice
\* output_data[0..16] panics on shorter data).
CheckOutputUdtAmount ==
    /\ pc = "check_udt_amount"
    /\ \/ HostError({"load_cell_data(0, Output)"}, host)
       \/ \E output_data \in CellDatas :
            /\ host' = [host EXCEPT !.out_data = Some(output_data)]
            /\ IF Len(output_data) < 16
               THEN Return("Panic")
               ELSE IF ~OutputUdtAmountAccepted(output_data, m.new_amount)
               THEN Return("OutputUdtAmountError")
               ELSE pc' = "exec" /\ UNCHANGED result
    /\ UNCHANGED <<cell, chain, ledger, m>>

\* Lines 333-336: an untyped successor has capacity new_amount.
CheckOutputCapacity ==
    /\ pc = "check_capacity"
    /\ \/ HostError({"load_cell_capacity(0, Output)"}, host)
       \/ \E output_capacity \in Capacities :
            /\ host' = [host EXCEPT !.out_capacity = Some(output_capacity)]
            /\ IF ~OutputCapacityAccepted(output_capacity, m.new_amount)
               THEN Return("OutputCapacityError")
               ELSE pc' = "exec" /\ UNCHANGED result
    /\ UNCHANGED <<cell, chain, ledger, m>>

\* hex::encode: two lowercase hexadecimal digits per byte.
HexDigits == <<"0", "1", "2", "3", "4", "5", "6", "7", "8", "9",
               "a", "b", "c", "d", "e", "f">>

RECURSIVE HexEncode(_)
HexEncode(bytes) ==
    IF bytes = <<>> THEN <<>>
    ELSE <<HexDigits[(bytes[1] \div 16) + 1], HexDigits[(bytes[1] % 16) + 1]>>
             \o HexEncode(Tail(bytes))

\* The verifier's reading of a hexadecimal argument.
HexValue(d) == (CHOOSE k \in 1..16 : HexDigits[k] = d) - 1

RECURSIVE HexDecode(_)
HexDecode(digits) ==
    IF Len(digits) < 2 THEN <<>>
    ELSE <<16 * HexValue(digits[1]) + HexValue(digits[2])>>
             \o HexDecode(SubSeq(digits, 3, Len(digits)))

\* AuthArgs handing the message before the signature.
AuthArgs_MessageFirst(signature, message, pubkey_hash) ==
    <<HexEncode(<<0>>), HexEncode(message), HexEncode(signature),
      HexEncode(pubkey_hash)>>

\* Lines 341-356: the arguments of the verifier, each in hexadecimal: the
\* algorithm id 0, the signature, the message and the public key hash.
AuthArgs(signature, message, pubkey_hash) ==
    <<HexEncode(<<0>>), HexEncode(signature), HexEncode(message),
      HexEncode(pubkey_hash)>>

\* ExecFailed without the return: the run falls through to Ok(()).
ExecFailed_FallsThrough == "Ok"

\* Lines 358-361: a failed exec_cell returns AuthError.
ExecFailed == "AuthError"

\* Lines 341-361: the four hex arguments, then exec_cell.  exec_cell does not
\* return when it succeeds; when it fails the script returns AuthError.
ExecAuth ==
    /\ pc = "exec"
    /\ \/ /\ Return(ExecFailed)
          /\ UNCHANGED m
       \/ /\ m' = [m EXCEPT !.exec_args =
                      Some(AuthArgs(m.signature, m.message, m.pubkey_hash))]
          /\ pc' = "verifier"
          /\ UNCHANGED result
    /\ UNCHANGED <<cell, chain, ledger, host>>

\* The auth verifier runs in place of the script: its exit status is the
\* script's.
VerifierExit ==
    /\ pc = "verifier"
    /\ LET a == m.exec_args[1]
       IN  Return(IF /\ a[1] = <<"0", "0">>
                     /\ VerifierAccepts(HexDecode(a[2]), HexDecode(a[3]), HexDecode(a[4]))
                  THEN "Ok" ELSE "VerifierReject")
    /\ UNCHANGED <<cell, chain, ledger, m, host>>

Next ==
    \/ CheckInputs
    \/ LoadScript
    \/ LoadWitness
    \/ ClassifyLength
    \/ CommitmentCheck
    \/ UnlockSettlement
    \/ HtlcBegin
    \/ HtlcLoopStep
    \/ CheckOutputLock
    \/ CheckOutputCapacityTyped
    \/ CheckOutputType
    \/ CheckOutputUdtAmount
    \/ CheckOutputCapacity
    \/ ExecAuth
    \/ VerifierExit

Spec == Init /\ [][Next]_vars

\* The runs on a cell that commits to ManyHtlcs pending HTLCs.
InitMany ==
    /\ cell \in ManyCells
    /\ pc = "check_inputs"
    /\ result = ""
    /\ m = InitialLocals
    /\ host = NoAnswers
    /\ chain = <<HtlcCount(cell.committed)>>
    /\ ledger = <<>>

SpecMany == InitMany /\ [][Next]_vars

\* ------------------------------------------------- what the claims refer to

\* Control reached the invocation of the auth verifier (exec_cell).
AtVerifier ==
    \/ pc \in {"exec", "verifier"}
    \/ pc = "done" /\ result \in {"Ok", "VerifierReject", "AuthError"}

\* The verifier ran: exec_cell transferred control.
VerifierRan == m.exec_args # None

\* The run went past the dispatch on an HTLC index (unlock_type = k < n).
OnHtlcPath == m.new_witness_script # <<>>

\* The run completed the loop over the HTLC chunks.
PastHtlcLoop == OnHtlcPath /\ m.i = m.pending_htlcs

\* The HTLC record the run unlocks, read from the script the cell commits to.
SelectedHtlc == HtlcChunk(cell.committed, m.unlock_type)

\* The raw witness the host served, after the 16-byte sentinel.
ServedWitness == Slice(host.witness[1], 16, Len(host.witness[1]))

\* The signature of the served witness: the 65 bytes after unlock_type.
ServedSignature ==
    Slice(ServedWitness, Len(cell.committed) + 1, Len(cell.committed) + 66)

\* The preimage of the served witness: the 32 bytes after the signature, if any.
ServedPreimage ==
    IF Len(ServedWitness) = Len(cell.committed) + 66 + 32
    THEN Some(Slice(ServedWitness, Len(cell.committed) + 66, Len(ServedWitness)))
    ELSE None

\* The input since the host served is zero / is not zero.
SinceIsZero == host.since # None /\ host.since[1] = ZeroSince

SinceIsNonZero == host.since # None /\ host.since[1] # ZeroSince

\* The input's amount: the first 16 bytes of its data when it has a type
\* script, else its capacity.
InputAmount ==
    IF cell.type # None THEN Slice(host.in_data[1], 0, 16)
    ELSE host.in_capacity[1] \o Rep(0, 8)

\* The direction bit (bit 0) of an HTLC record: offered or received.
IsOffered(h) == h[1] % 2 = 0

\* The HTLC is settled to the remote side: offered and claimed with the
\* preimage, or received and refunded after expiry.
SettledToRemote ==
    \/ IsOffered(SelectedHtlc) /\ SinceIsZero
    \/ ~IsOffered(SelectedHtlc) /\ SinceIsNonZero

\* a + b on little-endian byte strings of one length, modulo 256^Len(a).
RECURSIVE AddLE(_, _, _)
AddLE(a, b, carry) ==
    IF a = <<>> THEN <<>>
    ELSE LET t == a[1] + b[1] + carry
         IN  <<t % 256>> \o AddLE(Tail(a), Tail(b), t \div 256)

\* x = a - b in 128-bit arithmetic.
IsDifference(x, a, b) ==
    /\ AddLE(x, b, 0) = a
    /\ CmpLE(a, b) # "lt" => LEValue(x) = LEValue(a) - LEValue(b)

\* The amount the successor must carry.
ExpectedNewAmount(x) ==
    IF SettledToRemote
    THEN IsDifference(x, InputAmount, Slice(SelectedHtlc, 1, 17))
    ELSE x = InputAmount

\* The key hash that may authorize the HTLC path, by direction and since.
ExpectedHtlcPkh ==
    IF IsOffered(SelectedHtlc) = SinceIsZero
    THEN Slice(SelectedHtlc, 37, 57)
    ELSE Slice(SelectedHtlc, 57, 77)

\* The successor amount of an accepted HTLC-path spend, as output 0 carries it.
SuccessorAmount ==
    IF cell.type # None THEN Slice(host.out_data[1], 0, 16)
    ELSE host.out_capacity[1] \o Rep(0, 8)

\* ------------------------------------------------------------ chained spends

\* The script a 20-byte lock argument commits to: the preimage of the hash.
CommittedBy(args) == args[1].pre

\* The type script and the data the successor of an untyped spend may hold:
\* the spend read neither, so the spender gave it none, or a type script and
\* any amount.
UnreadTypes == { None, Some(UdtScript) }

UnreadDatas == { LEBytes(2000000000, 16) }

\* The successor of an accepted HTLC-path spend is spent in its turn: output 0
\* becomes the input cell of a new transaction, with the lock, the capacity,
\* the type script and the data the accepted transaction gave it (the type
\* script and the data of an untyped spend's output are not read, so they are
\* any).  The ledger records the amount the spend found, the amount it left
\* and the payment amount when the HTLC was settled to the remote side.
SpendSuccessor ==
    /\ pc = "done"
    /\ result = "Ok"
    /\ m.new_witness_script # <<>>
    /\ \E t \in (IF cell.type # None THEN {host.out_type[1]} ELSE UnreadTypes) :
         \E d \in (IF cell.type # None THEN {host.out_data}
                   ELSE IF t = None THEN {None}
                   ELSE {Some(x) : x \in UnreadDatas}) :
           cell' = [committed |-> CommittedBy(host.out_lock[1].args),
                    args |-> host.out_lock[1].args,
                    type |-> t,
                    capacity |-> host.out_capacity,
                    data |-> d]
    /\ chain' = Append(chain, HtlcCount(cell'.committed))
    /\ ledger' = Append(ledger,
                        [base |-> Slice(cell.committed, 0, MIN_WITNESS_SCRIPT_LEN),
                         typed |-> cell.type # None,
                         input |-> InputAmount,
                         output |-> SuccessorAmount,
                         paid |-> IF SettledToRemote
                                  THEN payment_amount(SelectedHtlc)
                                  ELSE Rep(0, 16)])
    /\ pc' = "check_inputs"
    /\ result' = ""
    /\ m' = InitialLocals
    /\ host' = NoAnswers

NextChain == Next \/ SpendSuccessor

\* A chain starts from a commitment to MaxHtlcs pending HTLCs.
InitChain == Init /\ HtlcCount(cell.committed) = MaxHtlcs

SpecChain == InitChain /\ [][NextChain]_vars

\* ------------------------------------------------------------------ claims

\* C1: on the HTLC path (unlock_type = k < n) a run reaches the auth verifier
\* only with output 0 locked by the running script's code hash and hash type
\* and by args = Blake2b(committed script with HTLC k taken out, the others in
\* order)[0..20]; every other lock of output 0 ends the run with
\* OutputLockError.
C1_SuccessorLock ==
    LET expected == [code_hash |-> ScriptCodeHash, hash_type |-> ScriptHashType,
                     args |-> Slice(blake2b_256(ElideHtlc(cell.committed, m.unlock_type)),
                                    0, 20)]
    IN  /\ (AtVerifier /\ OnHtlcPath) => host.out_lock = Some(expected)
        /\ (host.out_lock # None /\ host.out_lock # Some(expected))
              => (pc = "done" /\ result = "OutputLockError")

C1_Witness ==
    /\ pc = "verifier"
    /\ OnHtlcPath
    /\ m.pending_htlcs = 2
    /\ m.unlock_type = 0
    /\ host.out_lock[1].args = LockArgs(WitnessBase \o HtlcChunk(cell.committed, 1))

\* C2: past the HTLC loop new_amount is the input amount minus the payment
\* amount of HTLC k (128-bit arithmetic) when the HTLC is settled to the remote
\* side, and the input amount unchanged when it is settled to the local side;
\* the input amount is the first 16 bytes of the input data for a typed input,
\* else the input capacity.
C2_NewAmount == PastHtlcLoop => ExpectedNewAmount(m.new_amount)

C2_Witness ==
    /\ pc = "verifier"
    /\ PastHtlcLoop
    /\ cell.type # None
    /\ SettledToRemote
    /\ m.new_amount = LEBytes(2000000000 - 800000000, 16)

\* C3: on the HTLC path the key hash handed to the verifier is the remote key
\* of HTLC k for (offered, since = 0) and (received, since # 0) and the local
\* key for (offered, since # 0) and (received, since = 0); the run succeeds
\* only with a signature of that key.
C3_HtlcKey ==
    /\ (AtVerifier /\ OnHtlcPath) => m.pubkey_hash = ExpectedHtlcPkh
    /\ (VerifierRan /\ OnHtlcPath) => HexDecode(m.exec_args[1][4]) = ExpectedHtlcPkh
    /\ (pc = "done" /\ result = "Ok" /\ OnHtlcPath)
          => PubkeyHash(ServedSignature[1]) = ExpectedHtlcPkh

C3_Witness ==
    /\ pc = "done"
    /\ result = "Ok"
    /\ OnHtlcPath
    /\ ~IsOffered(SelectedHtlc)
    /\ SinceIsNonZero
    /\ m.unlock_type = 1

\* The class tag of a time-lock value: the relative flag and the metric.
TagOf(s) == s[8] \div 32

\* since >= bound for two time-lock values of one class: epochs with fraction
\* as the rationals number + index/length, block numbers and timestamps as
\* numbers.
TimeLockReached(since, bound) ==
    /\ TagOf(since) = TagOf(bound)
    /\ TagOf(since) % 4 # 3
    /\ IF TagOf(since) % 4 = 1
       THEN LET num(s) == s[1] + 256 * s[2] + 65536 * s[3]
                idx(s) == s[4] + 256 * s[5]
                len(s) == s[6] + 256 * s[7]
            IN  (num(since) * len(since) + idx(since)) * len(bound)
                    >= (num(bound) * len(bound) + idx(bound)) * len(since)
       ELSE LEValue(SubSeq(since, 1, 7)) >= LEValue(SubSeq(bound, 1, 7))

\* The served preimage opens HTLC record h: its hash under the algorithm of
\* flags bit 1 (0 Blake2b, 1 SHA-256), cut to 20 bytes, is the payment hash.
PreimageOpens(h) ==
    /\ ServedPreimage # None
    /\ Slice(h, 17, 37)
         = Slice(Digest(IF (h[1] \div 2) % 2 = 0 THEN "blake2b" ELSE "sha256",
                        ServedPreimage[1]), 0, 20)

\* C4: a run that reaches the auth verifier took exactly one of the four unlock
\* paths, the one selected by (unlock_type = 0xFF, since = 0): revocation,
\* local delay, HTLC claim by preimage, HTLC refund by expiry.  With since = 0
\* it hands over the revocation key or the claim key of an HTLC whose preimage
\* was shown; with since # 0 it hands over the local-delay key or the refund
\* key, and the time lock was reached.
C4_FourPaths ==
    AtVerifier =>
        /\ host.since # None
        /\ m.path = IF m.unlock_type = 255
                    THEN (IF SinceIsZero THEN "revocation" ELSE "local_delay")
                    ELSE (IF SinceIsZero THEN "htlc_claim" ELSE "htlc_refund")
        /\ m.unlock_type # 255 =>
              (OnHtlcPath /\ m.unlock_type < HtlcCount(cell.committed))
        /\ m.unlock_type = 255 => ~OnHtlcPath
        /\ CASE m.path = "revocation" ->
                    m.pubkey_hash = Slice(cell.committed, 28, 48)
             [] m.path = "local_delay" ->
                    /\ m.pubkey_hash = Slice(cell.committed, 8, 28)
                    /\ TimeLockReached(host.since[1], Slice(cell.committed, 0, 8))
             [] m.path = "htlc_claim" ->
                    /\ m.pubkey_hash = ExpectedHtlcPkh
                    /\ PreimageOpens(SelectedHtlc)
             [] m.path = "htlc_refund" ->
                    /\ m.pubkey_hash = ExpectedHtlcPkh
                    /\ TimeLockReached(host.since[1], Slice(SelectedHtlc, 77, 85))
             [] OTHER -> FALSE

C4_Witness ==
    /\ pc = "verifier"
    /\ m.path = "htlc_claim"
    /\ m.unlock_type = 1
    /\ IsOffered(SelectedHtlc)
    /\ (SelectedHtlc[1] \div 2) % 2 = 1

\* C5: with unlock_type = 0xFF and input since = 0, whatever the number of
\* pending HTLCs, the run ends in success exactly when the verifier ran and
\* accepts the witness's signature over the transaction hash under the
\* revocation key hash W[28..48]; that key hash is what the verifier is given.
C5_Revocation ==
    /\ (pc = "done" /\ m.unlock_type = 255 /\ SinceIsZero) =>
          (result = "Ok" <=>
              /\ VerifierRan
              /\ VerifierAccepts(ServedSignature, TxHash, Slice(cell.committed, 28, 48)))
    /\ (VerifierRan /\ m.unlock_type = 255 /\ SinceIsZero) =>
          /\ HexDecode(m.exec_args[1][2]) = ServedSignature
          /\ HexDecode(m.exec_args[1][3]) = TxHash
          /\ HexDecode(m.exec_args[1][4]) = Slice(cell.committed, 28, 48)

C5_Witness ==
    /\ pc = "done"
    /\ result = "Ok"
    /\ m.unlock_type = 255
    /\ SinceIsZero
    /\ HtlcCount(cell.committed) = 2
    /\ ServedPreimage = None

\* The local-delay path's two conditions: the input since has reached the
\* delay W[0..8], and the served signature is valid under W[8..28].
DelayReached == TimeLockReached(host.since[1], Slice(cell.committed, 0, 8))

LocalDelaySignatureValid ==
    VerifierAccepts(ServedSignature, TxHash, Slice(cell.committed, 8, 28))

\* C6 as stated: on the local-delay path the spend succeeds iff the delay is
\* reached and the signature is valid, and every other run rejects with
\* InvalidSince (runs whose exec of the verifier fails are left aside).
C6_AsStated ==
    (pc = "done" /\ m.unlock_type = 255 /\ SinceIsNonZero /\ result # "AuthError") =>
        /\ result = "Ok" <=> (DelayReached /\ LocalDelaySignatureValid)
        /\ ~(DelayReached /\ LocalDelaySignatureValid) => result = "InvalidSince"

\* C6: with unlock_type = 0xFF and input since # 0 the run ends in success
\* exactly when since >= delay under the same tag and the verifier ran and
\* accepts the signature under W[8..28].  It ends with InvalidSince exactly
\* when since >= delay fails; when the delay is reached and the signature is
\* not valid the rejection is the verifier's (or AuthError when the verifier
\* cannot be executed), never InvalidSince.  With delay = epoch(10, 1/2),
\* since = epoch(10, 0/1) is rejected and since = epoch(12, 0/1) is accepted.
C6_LocalDelay ==
    /\ (pc = "done" /\ m.unlock_type = 255 /\ SinceIsNonZero) =>
          /\ result = "Ok" <=> (DelayReached /\ VerifierRan /\ LocalDelaySignatureValid)
          /\ result = "InvalidSince" <=> ~DelayReached
          /\ DelayReached => result \in {"Ok", "VerifierReject", "AuthError"}
          /\ (DelayReached /\ VerifierRan /\ ~LocalDelaySignatureValid)
                => result = "VerifierReject"
    /\ (m.unlock_type = 255 /\ host.since = Some(SinceFromEpoch(10, 0, 1, FALSE))
          /\ Slice(cell.committed, 0, 8) = SinceFromEpoch(10, 1, 2, FALSE))
          => (pc = "done" /\ result = "InvalidSince")
    /\ (m.unlock_type = 255 /\ host.since = Some(SinceFromEpoch(12, 0, 1, FALSE))
          /\ Slice(cell.committed, 0, 8) = SinceFromEpoch(10, 1, 2, FALSE))
          => AtVerifier

C6_Witness ==
    /\ pc = "done"
    /\ result = "Ok"
    /\ m.unlock_type = 255
    /\ host.since = Some(SinceFromEpoch(12, 0, 1, FALSE))
    /\ Slice(cell.committed, 0, 8) = SinceFromEpoch(10, 1, 2, FALSE)

\* The input since has reached the expiry of the selected HTLC.
ExpiryReached == TimeLockReached(host.since[1], Slice(SelectedHtlc, 77, 85))

\* C7: on the HTLC refund paths (since # 0, offered or received) a run reaches
\* the auth verifier only if since >= the HTLC's expiry under a matching tag;
\* otherwise it ends with InvalidSince before any output is examined, with no
\* amount deducted and no key chosen.
C7_RefundExpiry ==
    /\ (AtVerifier /\ OnHtlcPath /\ SinceIsNonZero) => ExpiryReached
    /\ (m.unlock_type # 255 /\ SinceIsNonZero /\ ~ExpiryReached) =>
          /\ pc = "done"
          /\ result = "InvalidSince"
          /\ m.new_amount = InputAmount
          /\ m.pubkey_hash = Rep(0, 20)
          /\ host.out_lock = None
          /\ host.out_capacity = None
          /\ host.out_data = None

C7_Witness ==
    /\ pc = "done"
    /\ result = "InvalidSince"
    /\ m.unlock_type = 1
    /\ ~IsOffered(SelectedHtlc)
    /\ host.since = Some(SinceFromTimestamp(HtlcExpiryTime(0) - 1, TRUE))

\* C8: on the HTLC claim paths (since = 0, offered or received) a witness with
\* no preimage, or with a preimage whose hash under the algorithm of flags
\* bit 1, cut to 20 bytes, is not the payment hash, ends the run with
\* PreimageError before any output is examined and with no amount deducted;
\* the verifier is reached only with a preimage that opens the HTLC.
C8_PreimageError ==
    /\ (m.unlock_type # 255 /\ SinceIsZero /\ ~PreimageOpens(SelectedHtlc)) =>
          /\ pc = "done"
          /\ result = "PreimageError"
          /\ m.new_amount = InputAmount
          /\ host.out_lock = None
          /\ host.out_capacity = None
          /\ host.out_data = None
    /\ (PastHtlcLoop /\ SinceIsZero) => PreimageOpens(SelectedHtlc)

C8_Witness ==
    /\ pc = "done"
    /\ result = "PreimageError"
    /\ SinceIsZero
    /\ ServedPreimage # None
    /\ (SelectedHtlc[1] \div 2) % 2 = 1
    /\ Slice(SelectedHtlc, 17, 37) = Slice(Digest("blake2b", ServedPreimage[1]), 0, 20)

\* The bound the input since is compared against: the delay on unlock type
\* 0xFF, the expiry of the selected HTLC otherwise.
BoundCompared ==
    IF m.unlock_type = 255
    THEN Slice(cell.committed, 0, 8)
    ELSE Slice(SelectedHtlc, 77, 85)

\* C9: on every time-locked path (since # 0: local delay, offered refund,
\* received refund) an input since whose class tag (relative/absolute, block
\* number/epoch/timestamp) differs from the tag of the bound it is compared
\* against ends the run with InvalidSince, whatever the two values are.
C9_TagMismatch ==
    (SinceIsNonZero /\ TagOf(host.since[1]) # TagOf(BoundCompared))
        => (pc = "done" /\ result = "InvalidSince")

C9_Witness ==
    /\ pc = "done"
    /\ result = "InvalidSince"
    /\ m.unlock_type = 0
    /\ host.since = Some(SinceFromTimestamp(HtlcExpiryTime(MaxHtlcs) + 1000, FALSE))
    /\ LEValue(SubSeq(host.since[1], 1, 7)) > LEValue(SubSeq(BoundCompared, 1, 7))

\* The run is on the HTLC path and the input cell has a type script.
TypedHtlcPath == OnHtlcPath /\ cell.type # None

\* C10: on the HTLC path with a typed input (type script T) a run reaches the
\* auth verifier only if output 0 has the input's capacity, type script T and
\* u128_le(output_data[0..16]) = new_amount; an output capacity that differs
\* ends the run with OutputCapacityError, an output type that is not T with
\* OutputTypeError, a token amount that is not new_amount with
\* OutputUdtAmountError.
C10_TypedSuccessor ==
    /\ (AtVerifier /\ TypedHtlcPath) =>
          /\ host.out_capacity # None
          /\ host.out_capacity = host.in_capacity
          /\ host.out_type = Some(cell.type)
          /\ host.out_data # None
          /\ Len(host.out_data[1]) >= 16
          /\ Slice(host.out_data[1], 0, 16) = m.new_amount
          /\ ExpectedNewAmount(Slice(host.out_data[1], 0, 16))
    /\ (TypedHtlcPath /\ host.out_capacity # None
          /\ host.out_capacity # host.in_capacity)
          => (pc = "done" /\ result = "OutputCapacityError")
    /\ (TypedHtlcPath /\ host.out_type # None /\ host.out_type[1] # cell.type)
          => (pc = "done" /\ result = "OutputTypeError")
    /\ (TypedHtlcPath /\ host.out_data # None /\ Len(host.out_data[1]) >= 16
          /\ Slice(host.out_data[1], 0, 16) # m.new_amount)
          => (pc = "done" /\ result = "OutputUdtAmountError")

C10_Witness ==
    /\ pc = "done"
    /\ result = "Ok"
    /\ TypedHtlcPath
    /\ SettledToRemote
    /\ Len(host.out_data[1]) = 19
    /\ Slice(host.out_data[1], 0, 16) = LEBytes(2000000000 - 500000000, 16)

\* The run is on the HTLC path and the input cell has no type script.
UntypedHtlcPath == OnHtlcPath /\ cell.type = None

\* C11: on the HTLC path with an untyped input a run reaches the auth verifier
\* only if the capacity of output 0, widened to 128 bits, is new_amount (the
\* input capacity, less the payment amount when settled to the remote side);
\* every other capacity ends the run with OutputCapacityError.
C11_UntypedSuccessor ==
    /\ (AtVerifier /\ UntypedHtlcPath) =>
          /\ host.out_capacity # None
          /\ host.out_capacity[1] \o Rep(0, 8) = m.new_amount
          /\ ExpectedNewAmount(host.out_capacity[1] \o Rep(0, 8))
    /\ (UntypedHtlcPath /\ host.out_capacity # None
          /\ host.out_capacity[1] \o Rep(0, 8) # m.new_amount)
          => (pc = "done" /\ result = "OutputCapacityError")

C11_Witness ==
    /\ pc = "done"
    /\ result = "Ok"
    /\ UntypedHtlcPath
    /\ SettledToRemote
    /\ host.in_capacity = Some(LEBytes(2000000000, 8))
    /\ host.out_capacity = Some(LEBytes(2000000000 - 800000000, 8))

\* The run was dispatched on unlock type 0xFF and the input since was read.
SettlementPath == m.unlock_type = 255 /\ host.since # None

\* The key of the 0xFF arm as a function of the input since and the base
\* fields alone.
ExpectedSettlementKey ==
    IF SinceIsZero THEN Slice(cell.committed, 28, 48) ELSE Slice(cell.committed, 8, 28)

\* The ways a 0xFF run may end, as a function of the input since, the
\* signature and the base fields alone.
ExpectedSettlementResults ==
    IF SinceIsNonZero /\ ~DelayReached
    THEN {"InvalidSince"}
    ELSE { IF VerifierAccepts(ServedSignature, TxHash, ExpectedSettlementKey)
           THEN "Ok" ELSE "VerifierReject",
           "AuthError" }

\* C12: with unlock_type = 0xFF no output cell and no input amount is ever
\* read, and the path, the key hash handed to the verifier and the way the run
\* ends are functions of the input since, the signature and the 48 base bytes
\* alone: they depend neither on the outputs nor on the number of pending
\* HTLCs, so two transactions that differ only in their outputs take the same
\* path with the same key hash.
C12_OutputsIgnored ==
    SettlementPath =>
        /\ host.out_lock = None
        /\ host.out_capacity = None
        /\ host.out_type = None
        /\ host.out_data = None
        /\ host.in_capacity = None
        /\ host.in_data = None
        /\ m.path = IF SinceIsZero THEN "revocation" ELSE "local_delay"
        /\ AtVerifier => m.pubkey_hash = ExpectedSettlementKey
        /\ VerifierRan => HexDecode(m.exec_args[1][4]) = ExpectedSettlementKey
        /\ pc = "done" => result \in ExpectedSettlementResults

C12_Witness ==
    /\ pc = "done"
    /\ result = "Ok"
    /\ SettlementPath
    /\ SinceIsNonZero
    /\ HtlcCount(cell.committed) = 2
    /\ ServedPreimage # None
    /\ cell.type # None

\* The run is an accepted HTLC-path spend.
AcceptedHtlcSpend == pc = "done" /\ result = "Ok" /\ OnHtlcPath

\* C13: along a chain of spends that starts from a commitment to n HTLCs, every
\* accepted HTLC-path spend leaves a successor under the same lock code that
\* commits to the same HTLC list with exactly one entry taken out; so the
\* commitments of a chain have n, n-1, ... HTLCs, a chain has at most n
\* accepted HTLC-path spends, and a commitment to 0 HTLCs reaches the verifier
\* only with unlock_type 0xFF (revocation or local delay).
C13_ChainShrinks ==
    /\ \A j \in 1..(Len(chain) - 1) : chain[j + 1] = chain[j] - 1
    /\ Len(chain) - 1 <= chain[1]
    /\ chain[Len(chain)] = HtlcCount(cell.committed)
    /\ AcceptedHtlcSpend =>
          /\ host.out_lock[1].code_hash = ScriptCodeHash
          /\ host.out_lock[1].hash_type = ScriptHashType
          /\ CommittedBy(host.out_lock[1].args)
                = ElideHtlc(cell.committed, m.unlock_type)
          /\ HtlcCount(CommittedBy(host.out_lock[1].args))
                = HtlcCount(cell.committed) - 1
    /\ (AtVerifier /\ HtlcCount(cell.committed) = 0) =>
          /\ m.unlock_type = 255
          /\ m.path \in {"revocation", "local_delay"}

C13_Witness ==
    /\ chain = <<2, 1, 0>>
    /\ pc = "done"
    /\ result = "Ok"
    /\ m.unlock_type = 255

\* The served witness begins with the 16-byte sentinel.
SentinelServed ==
    /\ host.witness # None
    /\ Len(host.witness[1]) >= 16
    /\ SubSeq(host.witness[1], 1, 16)
         = <<16, 0, 0, 0, 16, 0, 0, 0, 16, 0, 0, 0, 16, 0, 0, 0>>

\* A stripped witness length of the form 48 + 85 n + 66 + {0, 32}.
LengthFits(L) == L >= 114 /\ (L - 114) % 85 \in {0, 32}

\* The witness script of the served witness: all but the trailing unlock type,
\* signature and optional preimage.
ServedScript ==
    LET L == Len(ServedWitness)
    IN  SubSeq(ServedWitness, 1, L - 66 - ((L - 114) % 85))

\* The run passed the commitment check and read the transaction hash.
DispatchReached == m.message # <<>>

\* C14: a witness (sentinel and length in order) whose witness script W has
\* Blake2b(W)[0..20] # args ends the run with WitnessHashError; so a run that
\* reaches the unlock dispatch works on exactly the script the cell's lock
\* argument commits to, base fields and HTLC list.
C14_WitnessHash ==
    /\ (SentinelServed /\ LengthFits(Len(ServedWitness))
          /\ Slice(Digest("blake2b", ServedScript), 0, 20) # cell.args)
          => \/ pc \in {"classify", "commitment_check"}
             \/ pc = "done" /\ result = "WitnessHashError"
    /\ DispatchReached =>
          /\ ServedScript = cell.committed
          /\ Slice(m.witness, 0, m.witness_script_len) = cell.committed
          /\ m.pending_htlcs = HtlcCount(cell.committed)

C14_Witness ==
    /\ pc = "done"
    /\ result = "WitnessHashError"
    /\ HtlcCount(cell.committed) = 2
    /\ ServedScript = ElideHtlc(cell.committed, 1)

\* The run classified the witness length without rejecting it.
LengthClassified == m.witness_script_len > 0

\* C15: when the stripped witness length L is not rejected, the decoded
\* (n, has_preimage) is the one pair of a natural number and a flag with
\* L = 48 + 85 n + 66 + 32 has_preimage; the witness script is the first
\* 48 + 85 n bytes, unlock_type the byte after it, the signature the next 65
\* bytes and the preimage, when there is one, the last 32 bytes.
C15_LengthDecoding ==
    LET L == Len(ServedWitness)
        n == m.pending_htlcs
        p == IF m.preimage # None THEN 1 ELSE 0
    IN  /\ LengthClassified =>
              /\ L = 48 + 85 * n + 66 + 32 * p
              /\ \A n2 \in 0..(L \div 85), p2 \in {0, 1} :
                    L = 48 + 85 * n2 + 66 + 32 * p2 => (n2 = n /\ p2 = p)
              /\ m.witness_script_len = 48 + 85 * n
              /\ p = 1 => m.preimage[1] = SubSeq(ServedWitness, L - 31, L)
        /\ DispatchReached =>
              /\ cell.committed = SubSeq(ServedWitness, 1, 48 + 85 * n)
              /\ m.unlock_type = ServedWitness[48 + 85 * n + 1]
              /\ m.signature = SubSeq(ServedWitness, 48 + 85 * n + 2, 48 + 85 * n + 66)
              /\ Len(m.signature) = 65
              /\ L = 48 + 85 * n + 1 + 65 + 32 * p

C15_Witness ==
    /\ DispatchReached
    /\ m.pending_htlcs = 2
    /\ Len(ServedWitness) = 48 + 85 * 2 + 66 + 32
    /\ m.preimage = Some(PreimageOf(1))
    /\ m.unlock_type = 1

\* C16: a witness (sentinel in order) whose stripped length L is below
\* 48 + 66, or has (L - 48 - 66) mod 85 other than 0 and 32 (40, say), ends
\* the run with WitnessLenError: its length is never decoded and nothing of it
\* is hashed or dispatched on.
C16_WitnessLenError ==
    (SentinelServed /\ ~LengthFits(Len(ServedWitness))) =>
        /\ \/ pc = "classify"
           \/ pc = "done" /\ result = "WitnessLenError"
        /\ ~LengthClassified
        /\ ~DispatchReached

C16_Witness ==
    /\ pc = "done"
    /\ result = "WitnessLenError"
    /\ Len(ServedWitness) >= 114
    /\ (Len(ServedWitness) - 114) % 85 = 40
    /\ Slice(ServedWitness, 0, 48) = WitnessBase

SecondInputExists == host.second_since # None /\ host.second_since[1].ok

\* C18: when the script group has a second input the run ends with
\* MultipleInputs before anything else is loaded, whatever the args, the
\* witness, the since values and the outputs are.
C18_MultipleInputs ==
    SecondInputExists =>
        /\ pc = "done"
        /\ result = "MultipleInputs"
        /\ m = InitialLocals
        /\ host = [NoAnswers EXCEPT !.second_since = host.second_since]

C18_Witness ==
    /\ pc = "done"
    /\ result = "MultipleInputs"
    /\ SecondInputExists
    /\ host.second_since[1].value # ZeroSince
    /\ Len(cell.args) # 20

\* How a run ends when a host call fails.
HostFailures == { FromSysError(e) : e \in SysErrors }

\* C19: script args whose length is not 20 end the run with ArgsLenError (in a
\* group of one input whose host calls answer): the run never loads the
\* witness and never goes past the length test.
C19_ArgsLen ==
    Len(cell.args) # 20 =>
        /\ pc \in {"check_inputs", "load_script", "done"}
        /\ host.witness = None
        /\ (pc = "done" /\ ~SecondInputExists /\ result \notin HostFailures)
              => result = "ArgsLenError"

C19_Witness ==
    /\ pc = "done"
    /\ result = "ArgsLenError"
    /\ Len(cell.args) = 32
    /\ ~SecondInputExists

\* The unlock_type byte of the served witness: the byte after the script.
ServedUnlockType == ServedWitness[Len(cell.committed) + 1]

\* C20: at the dispatch, an unlock_type that is neither 0xFF nor the index of
\* a pending HTLC ends the run with InvalidUnlockType before the input since,
\* an input amount or an output cell is read; with no pending HTLC that is
\* every unlock_type other than 0xFF.
C20_InvalidUnlockType ==
    (/\ DispatchReached
     /\ ServedUnlockType # 255
     /\ ServedUnlockType >= HtlcCount(cell.committed))
        => /\ \/ pc = "dispatch"
              \/ pc = "done" /\ result = "InvalidUnlockType"
           /\ ~OnHtlcPath
           /\ host.since = None
           /\ host.in_capacity = None
           /\ host.in_data = None
           /\ host.out_lock = None
           /\ host.out_capacity = None
           /\ host.out_type = None
           /\ host.out_data = None

C20_Witness ==
    /\ pc = "done"
    /\ result = "InvalidUnlockType"
    /\ HtlcCount(cell.committed) = 0
    /\ ServedUnlockType = 0
    /\ cell.type # None


\* ------------------------------------------------- the verifier's invocation

\* The structural checks, stated of the cell and of what the host served: one
\* input in the group, 20-byte args, the sentinel, a fitting length, and args
\* that commit to the witness script.
StructureAccepted ==
    /\ host.second_since # None
    /\ ~SecondInputExists
    /\ Len(cell.args) = 20
    /\ SentinelServed
    /\ LengthFits(Len(ServedWitness))
    /\ Slice(blake2b_256(ServedScript), 0, 20) = cell.args

\* The unlock type, time-lock and preimage checks of the path the witness and
\* the input since select.
UnlockAccepted ==
    /\ host.since # None
    /\ IF ServedUnlockType = 255
       THEN SinceIsNonZero => DelayReached
       ELSE /\ ServedUnlockType < HtlcCount(cell.committed)
            /\ SinceIsZero => PreimageOpens(SelectedHtlc)
            /\ SinceIsNonZero => ExpiryReached

\* The output-continuation checks of an HTLC path: output 0 is the successor
\* commitment and carries the amount left.
ContinuationAccepted ==
    ServedUnlockType # 255 =>
      /\ host.out_lock
            = Some([code_hash |-> ScriptCodeHash, hash_type |-> ScriptHashType,
                    args |-> Slice(blake2b_256(ElideHtlc(cell.committed,
                                                         ServedUnlockType)), 0, 20)])
      /\ IF cell.type # None
         THEN /\ host.out_capacity # None
              /\ host.out_capacity = host.in_capacity
              /\ host.out_type = Some(cell.type)
              /\ host.out_data # None
              /\ Len(host.out_data[1]) >= 16
              /\ ExpectedNewAmount(Slice(host.out_data[1], 0, 16))
         ELSE /\ host.out_capacity # None
              /\ ExpectedNewAmount(host.out_capacity[1] \o Rep(0, 8))

\* The key hash the chosen path derives.
ExpectedPubkeyHash ==
    IF ServedUnlockType = 255 THEN ExpectedSettlementKey ELSE ExpectedHtlcPkh

\* C21: the verifier is invoked at most once per run, only after every
\* structural, unlock-type, time-lock, preimage and output-continuation check of
\* the chosen path has passed, and always with the algorithm id 0, the 65
\* signature bytes witness[48+85n+1 .. 48+85n+66], the transaction hash as the
\* message and the 20-byte key hash of the path, each in hexadecimal.
C21_VerifierInvocation ==
    /\ [](VerifierRan =>
            /\ pc \in {"verifier", "done"}
            /\ StructureAccepted
            /\ UnlockAccepted
            /\ ContinuationAccepted
            /\ Len(m.exec_args[1]) = 4
            /\ m.exec_args[1][1] = <<"0", "0">>
            /\ HexDecode(m.exec_args[1][2]) = ServedSignature
            /\ Len(ServedSignature) = 65
            /\ HexDecode(m.exec_args[1][3]) = TxHash
            /\ HexDecode(m.exec_args[1][4]) = ExpectedPubkeyHash
            /\ Len(ExpectedPubkeyHash) = 20)
    /\ [][VerifierRan => (pc' # "exec" /\ m'.exec_args = m.exec_args)]_vars

\* A typed claim by preimage has passed every check and the verifier runs.
C21_Witness ==
    /\ pc = "verifier"
    /\ VerifierRan
    /\ TypedHtlcPath
    /\ SinceIsZero
    /\ HtlcCount(cell.committed) = 2

\* C22: AuthError is the result only of a run that passed every check of its
\* path and whose transfer of control to the verifier then failed (no failed
\* check is reported as AuthError); and no run ends with success unless control
\* was transferred to the verifier, whose verdict the success is.
C22_AuthError ==
    /\ result = "AuthError" =>
          /\ pc = "done"
          /\ ~VerifierRan
          /\ StructureAccepted
          /\ UnlockAccepted
          /\ ContinuationAccepted
    /\ result = "Ok" =>
          /\ pc = "done"
          /\ VerifierRan
          /\ VerifierAccepts(ServedSignature, TxHash, ExpectedPubkeyHash)

\* The transfer of control fails after an HTLC refund passed every check.
C22_Witness ==
    /\ result = "AuthError"
    /\ OnHtlcPath
    /\ SinceIsNonZero
    /\ host.out_lock # None

\* ------------------------------------------------------- the ways a run ends

\* The run returned one of the failure codes of enum Error.
ReturnedFailureCode ==
    \E k \in 1..Len(ErrorNames) : result = ErrorNames[k] /\ ExitCode(result) = k

\* C23: whatever the witness (of any length from 0 up), the cell data, the HTLC
\* amounts and the host's answers are, a run ends either by transferring control
\* to the verifier or by returning one of the failure codes 1..18.  A witness
\* shorter than the 16-byte sentinel, typed cell data shorter than 16 bytes, a
\* subtraction below zero under overflow checks and an unknown host error end
\* the run with a panic instead.
C23_AsStated == pc = "done" => (VerifierRan \/ ReturnedFailureCode)

\* ------------------------------------------------------------- host errors

\* The exit code the host's error has by itself.
HostErrorCode(e) ==
    CASE e = "IndexOutOfBound" -> 1
      [] e = "ItemMissing" -> 2
      [] e = "LengthNotEnough" -> 3
      [] e = "Encoding" -> 4

\* The probe for a second group input answered with an error.
ProbeFailed == host.second_since # None /\ ~host.second_since[1].ok

\* A load other than the probe answered with one of the four host errors.
LoadFailed ==
    /\ host.failed # None
    /\ host.failed[1].err \in {"IndexOutOfBound", "ItemMissing",
                                "LengthNotEnough", "Encoding"}

\* C24 as worded: every host load that answers with one of the four errors,
\* the probe load_input_since(1, GroupInput) included, ends the run with that
\* error's own code.
C24_AsStated ==
    /\ LoadFailed => (pc = "done" /\ result = host.failed[1].err /\ ~VerifierRan)
    /\ ProbeFailed => (pc = "done" /\ result = host.second_since[1].value)

\* C24: whenever a host load other than the probe load_input_since(1,
\* GroupInput) answers IndexOutOfBound, ItemMissing, LengthNotEnough or
\* Encoding, the run ends there with that error's own exit code (1, 2, 3, 4):
\* no later step is taken, the verifier is not invoked, and a run that ends with
\* one of these codes ends so because of such a load.  An error of the probe is
\* not returned: it tells the run that its group has one input, and the run
\* goes on.
C24_HostErrors ==
    /\ [](LoadFailed =>
            /\ pc = "done"
            /\ result = host.failed[1].err
            /\ ExitCode(result) = HostErrorCode(host.failed[1].err)
            /\ ~VerifierRan)
    /\ [](result \in {"IndexOutOfBound", "ItemMissing", "LengthNotEnough", "Encoding"}
            => (LoadFailed /\ ProbeFailed))
    /\ [](ProbeFailed => result # "MultipleInputs")
    /\ [][host.failed = None]_vars

\* The host fails to serve the data of output 0 after every earlier check of a
\* typed HTLC spend passed.
C24_Witness ==
    /\ pc = "done"
    /\ result = "LengthNotEnough"
    /\ host.failed = Some([call |-> "load_cell_data(0, Output)",
                           err |-> "LengthNotEnough"])
    /\ host.out_type # None

\* Output 0 does not exist: the host answers the load of its lock with
\* IndexOutOfBound.
NoOutputCell ==
    host.failed = Some([call |-> "load_cell_lock(0, Output)",
                        err |-> "IndexOutOfBound"])

\* C25: an HTLC-path spend whose transaction has no output cell at index 0 is
\* never accepted: the run ends with the host's IndexOutOfBound (exit code 1)
\* when it asks for the lock of output 0, before the verifier is invoked; a
\* run on the HTLC path that reaches the verifier has read the lock of an
\* existing output 0.
C25_NoOutput ==
    /\ NoOutputCell =>
          /\ OnHtlcPath
          /\ pc = "done"
          /\ result = "IndexOutOfBound"
          /\ ExitCode(result) = 1
          /\ ~AtVerifier
          /\ ~VerifierRan
    /\ (AtVerifier /\ OnHtlcPath) => (host.out_lock # None /\ host.failed = None)

\* A claim by preimage on a commitment to two HTLCs passes the loop and finds
\* no output 0.
C25_Witness ==
    /\ NoOutputCell
    /\ PastHtlcLoop
    /\ SinceIsZero
    /\ HtlcCount(cell.committed) = 2
    /\ result = "IndexOutOfBound"

\* ------------------------------------------------- the witness of the tests

\* The witness of the revocation test: the witness script the args commit to,
\* beginning directly with delay_epoch, then 0xFF and the revocation key's
\* signature of the transaction hash.
TestWitnessServed ==
    /\ cell.args = LockArgs(cell.committed)
    /\ host.witness = Some(WitnessBytes(cell.committed, 255, Signature(2, TxHash),
                                        <<>>, "no_sentinel"))

\* C26: a spend whose witness is built as the tests build it (witness_script,
\* unlock_type, signature, with no sentinel before delay_epoch), whose args are
\* Blake2b(witness_script)[0..20] and whose signature is valid for the path
\* (here the revocation path, input since 0) passes verification.  The run
\* takes the first 16 bytes of such a witness for the sentinel and ends with
\* EmptyWitnessArgsError.
C26_AsStated ==
    ( /\ TestWitnessServed
      /\ pc = "done"
      /\ host.failed = None
      /\ host.since # None => SinceIsZero
      /\ result # "AuthError" )
    => result = "Ok"

\* -------------------------------------------------- precedence of the errors

\* The witness was served and has the 16 bytes that are drained.
WitnessDrained == host.witness # None /\ Len(host.witness[1]) >= 16

\* The served witness script does not hash to the cell's args.
HashMismatch == Slice(blake2b_256(ServedScript), 0, 20) # cell.args

\* Nothing of the dispatch has been consulted: neither the transaction hash,
\* nor the input since, nor the input amount, nor output 0, nor the verifier.
NothingPastStructure ==
    /\ m.message = <<>>
    /\ host.since = None
    /\ host.in_data = None
    /\ host.in_capacity = None
    /\ host.out_lock = None
    /\ host.out_capacity = None
    /\ host.out_type = None
    /\ host.out_data = None
    /\ ~VerifierRan

ExpectedSuccessorLock ==
    [code_hash |-> ScriptCodeHash, hash_type |-> ScriptHashType,
     args |-> Slice(blake2b_256(ElideHtlc(cell.committed, ServedUnlockType)), 0, 20)]

\* The run dispatched on an HTLC index.
HtlcDispatch == DispatchReached /\ m.unlock_type # 255

\* C30: on the HTLC path the errors come in the order InvalidUnlockType, then
\* InvalidSince or PreimageError, then OutputLockError, then (typed cell)
\* OutputCapacityError, OutputTypeError, OutputUdtAmountError: a run that ends
\* with one of them passed every earlier check and consulted nothing a later
\* check reads, so a later defect of the same transaction cannot change the
\* result; e.g. a claim without a preimage ends with PreimageError without the
\* lock of output 0 being read, and a typed spend whose output has a wrong type
\* ends with OutputTypeError without its amount being read.
C30_HtlcOrder ==
    /\ (HtlcDispatch /\ result = "InvalidUnlockType") =>
          /\ ServedUnlockType >= HtlcCount(cell.committed)
          /\ host.since = None
          /\ host.in_data = None /\ host.in_capacity = None
          /\ host.out_lock = None
    /\ (HtlcDispatch /\ result \in {"InvalidSince", "PreimageError"}) =>
          /\ ServedUnlockType < HtlcCount(cell.committed)
          /\ result = "PreimageError" <=> SinceIsZero
          /\ host.out_lock = None
    /\ (HtlcDispatch /\ SinceIsZero /\ ~PreimageOpens(SelectedHtlc)) =>
          (pc = "done" /\ result = "PreimageError" /\ host.out_lock = None)
    /\ (HtlcDispatch /\ SinceIsNonZero /\ ~ExpiryReached) =>
          (pc = "done" /\ result = "InvalidSince" /\ host.out_lock = None)
    /\ result = "OutputLockError" =>
          /\ UnlockAccepted
          /\ host.out_lock # None
          /\ host.out_lock[1] # ExpectedSuccessorLock
          /\ host.out_capacity = None
    /\ (host.out_lock # None /\ host.out_lock[1] # ExpectedSuccessorLock) =>
          (pc = "done" /\ result = "OutputLockError" /\ host.out_capacity = None)
    /\ (result = "OutputCapacityError" /\ cell.type # None) =>
          /\ UnlockAccepted
          /\ host.out_lock = Some(ExpectedSuccessorLock)
          /\ host.out_capacity # host.in_capacity
          /\ host.out_type = None
    /\ (cell.type # None /\ host.out_capacity # None
          /\ host.out_capacity # host.in_capacity) =>
          (pc = "done" /\ result = "OutputCapacityError" /\ host.out_type = None)
    /\ result = "OutputTypeError" =>
          /\ UnlockAccepted
          /\ host.out_lock = Some(ExpectedSuccessorLock)
          /\ host.out_capacity # None
          /\ host.out_capacity = host.in_capacity
          /\ host.out_type # Some(cell.type)
          /\ host.out_data = None
    /\ (host.out_type # None /\ host.out_type # Some(cell.type)) =>
          (pc = "done" /\ result = "OutputTypeError" /\ host.out_data = None)
    /\ result = "OutputUdtAmountError" =>
          /\ UnlockAccepted
          /\ host.out_lock = Some(ExpectedSuccessorLock)
          /\ host.out_capacity # None
          /\ host.out_capacity = host.in_capacity
          /\ host.out_type = Some(cell.type)
          /\ Slice(host.out_data[1], 0, 16) # m.new_amount
    /\ result \in {"InvalidUnlockType", "InvalidSince", "PreimageError",
                    "OutputLockError", "OutputCapacityError", "OutputTypeError",
                    "OutputUdtAmountError"}
          => (pc = "done" /\ ~VerifierRan)

\* A typed refund whose output 0 has the successor lock and the input's
\* capacity but another type script: the type's error is reported and the
\* amount is not read.
C30_Witness ==
    /\ pc = "done"
    /\ result = "OutputTypeError"
    /\ TypedHtlcPath
    /\ SinceIsNonZero
    /\ host.out_data = None

\* ============================================================ the funding lock
\*
\* The funding lock's entry point, from its contract: the seven steps of the
\* funding-lock entry point and the layout of the funding-lock witness.

\* The length the funding-lock witness must have.
FUNDING_WITNESS_LEN == 121

\* The prefix of the witness the lock argument commits to.
FUNDING_SCRIPT_LEN == 48

\* The end of the signature field: offset 76, 65 bytes.
FUNDING_SIGNATURE_END == 141

\* version = 0 as 8 little-endian bytes.
FundingVersion == LEBytes(0, 8)

\* The 36 bytes of funding outpoint number o.
FundingOutPoint(o) == Rep(o, 32) \o LEBytes(0, 4)

\* The 32 bytes of the x-only aggregated public key number k.
XOnlyPubkey(k) == Rep(k, 32)

\* A public key that shares its first four bytes with key k.
LookalikePubkey(k) == Rep(k, 4) \o Rep(99, 28)

\* version, outpoint and public key: the first 76 bytes of the witness.
FundingConfig(o, pubkey) == FundingVersion \o FundingOutPoint(o) \o pubkey

\* The message the two parties sign for outpoint o in this transaction.
FundingMessage(o) == blake2b_256(FundingVersion \o FundingOutPoint(o) \o TxHash)

\* The aggregated signature by key k of the message of outpoint o, on len
\* bytes (65 in the witness layout, 64 as a compact signature).
FundingSignature(k, o, len) == <<k, o>> \o Rep(0, len - 2)

\* The auth verifier (algorithm id 0) on a funding signature.
FundingVerifierAccepts(sig, msg, pkh) ==
    /\ Len(sig) = 65
    /\ pkh = Slice(blake2b_256(XOnlyPubkey(sig[1])), 0, 20)
    /\ msg = FundingMessage(sig[2])

\* The funding cells: outpoint o under key k, with the lock argument of the
\* contract (the hash of the first 48 bytes of the configuration), the one
\* test_funding_lock builds (the hash of the public key), and arguments of 19
\* and 32 bytes.
FundingCells ==
    UNION { { [outpoint |-> o, key |-> k, args |-> a]
                : a \in { Slice(blake2b_256(Slice(FundingConfig(o, XOnlyPubkey(k)),
                                                   0, FUNDING_SCRIPT_LEN)), 0, 20),
                          Slice(blake2b_256(XOnlyPubkey(k)), 0, 20),
                          Slice(blake2b_256(XOnlyPubkey(k)), 0, 19),
                          blake2b_256(XOnlyPubkey(k)) } }
              : o \in {1, 2}, k \in {1, 2} }

\* The witnesses the spender of funding cell c may present: the layout of the
\* witness table (76 bytes and a 65-byte signature), the witness
\* test_funding_lock builds (76 bytes and a 64-byte compact signature), the
\* first 121 bytes of the table's layout with the cell's outpoint and key, with
\* another outpoint, with another key and with a key that differs after its
\* fourth byte, and zero bytes of several lengths.
FundingWitnesses(c) ==
    LET full(o, pubkey) == FundingConfig(o, pubkey) \o FundingSignature(c.key, o, 65)
    IN  { full(c.outpoint, XOnlyPubkey(c.key)),
          FundingConfig(c.outpoint, XOnlyPubkey(c.key))
              \o FundingSignature(c.key, c.outpoint, 64),
          Slice(full(c.outpoint, XOnlyPubkey(c.key)), 0, FUNDING_WITNESS_LEN),
          Slice(full(3 - c.outpoint, XOnlyPubkey(c.key)), 0, FUNDING_WITNESS_LEN),
          Slice(full(c.outpoint, XOnlyPubkey(3 - c.key)), 0, FUNDING_WITNESS_LEN),
          Slice(full(c.outpoint, LookalikePubkey(c.key)), 0, FUNDING_WITNESS_LEN) }
        \cup { Rep(0, L) : L \in {0, 47, 120, 121, 122} }

\* The locals of the funding lock's entry point before its first step.
FundingLocals ==
    [ args |-> <<>>, witness |-> <<>>, message |-> <<>>, pubkey_hash |-> <<>>,
      signature |-> <<>>, exec_args |-> None ]

InitFunding ==
    /\ cell \in FundingCells
    /\ pc = "funding_check_inputs"
    /\ result = ""
    /\ m = FundingLocals
    /\ host = NoAnswers
    /\ chain = <<>>
    /\ ledger = <<>>

\* Step 1: reject if a second group input exists.
FundingCheckInputs ==
    /\ pc = "funding_check_inputs"
    /\ \E answer \in SecondSinceAnswers :
         /\ host' = [host EXCEPT !.second_since = Some(answer)]
         /\ IF SecondInputFound(answer)
            THEN Return("MultipleInputs")
            ELSE pc' = "funding_load_script" /\ UNCHANGED result
    /\ UNCHANGED <<cell, chain, ledger, m>>

\* Step 2: the script args must be 20 bytes.
FundingArgsLenAccepted(args) == Len(args) = 20

\* Step 2: load script args; require length 20.
FundingLoadScript ==
    /\ pc = "funding_load_script"
    /\ \/ HostError({"load_script()"}, host) /\ UNCHANGED m
       \/ /\ IF ~FundingArgsLenAccepted(cell.args)
             THEN Return("ArgsLenError") /\ UNCHANGED m
             ELSE /\ m' = [m EXCEPT !.args = cell.args]
                  /\ pc' = "funding_load_witness"
                  /\ UNCHANGED result
          /\ UNCHANGED host
    /\ UNCHANGED <<cell, chain, ledger>>

\* FundingWitnessLenAccepted asking for at least 121 bytes.
FundingWitnessLenAccepted_AtLeast(witness) == Len(witness) >= FUNDING_WITNESS_LEN

\* Step 3: the witness must be 121 bytes.
FundingWitnessLenAccepted(witness) == Len(witness) = FUNDING_WITNESS_LEN

\* Step 3: load the group-input witness; require length 121.
FundingLoadWitness ==
    /\ pc = "funding_load_witness"
    /\ \/ HostError({"load_witness(0, GroupInput)"}, host) /\ UNCHANGED m
       \/ \E w \in FundingWitnesses(cell) :
            /\ host' = [host EXCEPT !.witness = Some(w)]
            /\ IF ~FundingWitnessLenAccepted(w)
               THEN Return("WitnessLenError") /\ UNCHANGED m
               ELSE /\ m' = [m EXCEPT !.witness = w]
                    /\ pc' = "funding_check_hash"
                    /\ UNCHANGED result
    /\ UNCHANGED <<cell, chain, ledger>>

\* Step 4: Blake2b(W)[0..20] == args for W = witness[0..48].
FundingHashMatches(witness, args) ==
    Slice(blake2b_256(Slice(witness, 0, FUNDING_SCRIPT_LEN)), 0, 20) = args

\* Step 4: split the witness and require the hash of W.
FundingCheckHash ==
    /\ pc = "funding_check_hash"
    /\ IF ~FundingHashMatches(m.witness, m.args)
       THEN Return("WitnessHashError")
       ELSE pc' = "funding_derive" /\ UNCHANGED result
    /\ UNCHANGED <<cell, chain, ledger, m, host>>

\* Steps 5 to 7: the message, the public key hash and the signature
\* witness[76..141].  On a witness that ends before byte 141 the signature
\* field is not all there: the run aborts, or goes on with the bytes there are.
FundingDerive ==
    /\ pc = "funding_derive"
    /\ \/ HostError({"load_tx_hash()"}, host) /\ UNCHANGED m
       \/ /\ UNCHANGED host
          /\ \E aborts \in (IF Len(m.witness) < FUNDING_SIGNATURE_END
                             THEN BOOLEAN ELSE {FALSE}) :
               IF aborts
               THEN Return("Panic") /\ UNCHANGED m
               ELSE /\ m' = [m EXCEPT
                               !.message = blake2b_256(Slice(m.witness, 0, 8)
                                                       \o Slice(m.witness, 8, 44)
                                                       \o TxHash),
                               !.pubkey_hash =
                                   Slice(blake2b_256(Slice(m.witness, 44, 76)), 0, 20),
                               !.signature =
                                   Slice(m.witness, 76,
                                         IF Len(m.witness) < FUNDING_SIGNATURE_END
                                         THEN Len(m.witness)
                                         ELSE FUNDING_SIGNATURE_END)]
                    /\ pc' = "funding_exec"
                    /\ UNCHANGED result
    /\ UNCHANGED <<cell, chain, ledger>>

\* The hexadecimal form of a digest, whose first byte stands for the hash.
HexEncodeDigest(d) == <<d[1], d[1]>> \o HexEncode(Tail(d))

HexDecodeDigest(h) == <<h[1]>> \o HexDecode(SubSeq(h, 3, Len(h)))

\* Step 7: the arguments of the verifier, each in hexadecimal.
FundingAuthArgs(signature, message, pubkey_hash) ==
    <<HexEncode(<<0>>), HexEncode(signature), HexEncodeDigest(message),
      HexEncodeDigest(pubkey_hash)>>

\* Step 7: the verifier replaces the program; a transfer that fails is
\* AuthError.
FundingExec ==
    /\ pc = "funding_exec"
    /\ \/ Return("AuthError") /\ UNCHANGED m
       \/ /\ m' = [m EXCEPT !.exec_args =
                      Some(FundingAuthArgs(m.signature, m.message, m.pubkey_hash))]
          /\ pc' = "funding_verifier"
          /\ UNCHANGED result
    /\ UNCHANGED <<cell, chain, ledger, host>>

\* The verifier's exit status is the script's.
FundingVerifierExit ==
    /\ pc = "funding_verifier"
    /\ LET a == m.exec_args[1]
       IN  Return(IF /\ a[1] = <<"0", "0">>
                     /\ FundingVerifierAccepts(HexDecode(a[2]), HexDecodeDigest(a[3]),
                                               HexDecodeDigest(a[4]))
                  THEN "Ok" ELSE "VerifierReject")
    /\ UNCHANGED <<cell, chain, ledger, m, host>>

NextFunding ==
    \/ FundingCheckInputs
    \/ FundingLoadScript
    \/ FundingLoadWitness
    \/ FundingCheckHash
    \/ FundingDerive
    \/ FundingExec
    \/ FundingVerifierExit

SpecFunding == InitFunding /\ [][NextFunding]_vars

\* ------------------------------------------------ claims on the funding lock

\* The funding run got to the transfer of control to the verifier.
FundingAtVerifier ==
    \/ pc \in {"funding_exec", "funding_verifier"}
    \/ pc = "done" /\ result \in {"Ok", "VerifierReject", "AuthError"}

\* The served funding witness has the required length.
FundingLengthServed == host.witness # None /\ Len(host.witness[1]) = 121

\* The first 48 bytes of the served funding witness hash to the cell's args.
FundingHashServed ==
    Slice(blake2b_256(SubSeq(host.witness[1], 1, 48)), 0, 20) = cell.args

C28_AsStated ==
    /\ ( pc = "done" /\ FundingLengthServed /\ FundingHashServed
          /\ host.failed = None /\ result # "AuthError" )
          => m.exec_args # None
    /\ m.exec_args # None =>
          /\ FUNDING_SIGNATURE_END <= Len(host.witness[1])
          /\ Len(HexDecode(m.exec_args[1][2])) = 65
          /\ HexDecode(m.exec_args[1][2])
                = SubSeq(host.witness[1], 77, Len(host.witness[1]))
          /\ HexDecodeDigest(m.exec_args[1][3])
                = blake2b_256(SubSeq(host.witness[1], 1, 44) \o TxHash)
          /\ HexDecodeDigest(m.exec_args[1][4])
                = Slice(blake2b_256(SubSeq(host.witness[1], 45, 76)), 0, 20)

\* ------------------------------------------------------ the 128-bit amounts

\* C32: on an HTLC path settled to the remote side the subtraction
\* new_amount - payment_amount never wraps into an accepted spend: when the
\* payment amount exceeds the input amount no successor is accepted, and in
\* every accepted spend the successor amount is at most the input amount.  In
\* a build without overflow checks the subtraction wraps and a typed output
\* that carries the wrapped amount is accepted.
C32_AsStated ==
    AcceptedHtlcSpend =>
      /\ SettledToRemote =>
            CmpLE(payment_amount(SelectedHtlc), InputAmount) # "gt"
      /\ CmpLE(SuccessorAmount, InputAmount) # "gt"

\* ------------------------------------------------- the verifier's key hash

\* Line 194: the value pubkey_hash holds before a path assigns it.
PubkeyHashPlaceholder == Rep(0, 20)

\* The key hashes of the committed script a path may assign: the two of the
\* base, and on the HTLC path the two of the selected HTLC.
CommittedPubkeyHashes ==
    { Slice(cell.committed, 8, 28), Slice(cell.committed, 28, 48) }
      \cup (IF OnHtlcPath
            THEN { remote_htlc_pubkey_hash(SelectedHtlc),
                   local_htlc_pubkey_hash(SelectedHtlc) }
            ELSE {})

\* C33: whenever the verifier is invoked its key hash argument was assigned on
\* the path taken and is revocation_pkh, local_delay_pkh, or the remote or local
\* key hash of the selected HTLC, as the committed script holds them; the
\* all-zero placeholder is never passed unassigned, and on the HTLC path the
\* loop has visited the selected index exactly once: every chunk but that one
\* is in the successor script.
C33_AssignedKey ==
    VerifierRan =>
      /\ m.path # "none"
      /\ HexDecode(m.exec_args[1][4]) = m.pubkey_hash
      /\ m.pubkey_hash \in CommittedPubkeyHashes
      /\ m.pubkey_hash # PubkeyHashPlaceholder
      /\ m.path \in {"revocation", "local_delay"} =>
            /\ m.unlock_type = 255
            /\ m.pubkey_hash \in { Slice(cell.committed, 8, 28),
                                   Slice(cell.committed, 28, 48) }
      /\ m.path \in {"htlc_claim", "htlc_refund"} =>
            /\ m.unlock_type < m.pending_htlcs
            /\ m.i = m.pending_htlcs
            /\ Len(m.new_witness_script) = m.pending_htlcs
            /\ m.pubkey_hash \in { remote_htlc_pubkey_hash(SelectedHtlc),
                                   local_htlc_pubkey_hash(SelectedHtlc) }

\* The verifier runs on the refund of the second of two HTLCs: the loop kept
\* the first chunk and assigned the key at the second.
C33_Witness ==
    /\ pc = "verifier"
    /\ VerifierRan
    /\ m.path = "htlc_refund"
    /\ m.unlock_type = 1
    /\ m.pending_htlcs = 2
    /\ m.pubkey_hash # PubkeyHashPlaceholder

\* --------------------------------------------- the preimage off the claims

\* The run was dispatched, with a preimage attached, on a path that does not
\* claim by preimage: unlock type 0xFF, or an HTLC index with since # 0.
NonClaimWithPreimage ==
    /\ DispatchReached
    /\ host.since # None
    /\ ServedPreimage # None
    /\ ServedUnlockType = 255 \/ SinceIsNonZero

\* The path such a run takes, by the unlock type and the input since alone.
ExpectedNonClaimPath ==
    IF ServedUnlockType # 255 THEN "htlc_refund"
    ELSE IF SinceIsZero THEN "revocation" ELSE "local_delay"

\* The time lock such a run must meet, by the unlock type, the input since and
\* the committed script alone.
NonClaimTimeLockMet ==
    IF ServedUnlockType # 255 THEN ExpiryReached
    ELSE SinceIsNonZero => DelayReached

\* C36: on the paths that do not claim by preimage (unlock type 0xFF, or an
\* HTLC refund with since # 0) a trailing 32-byte preimage is ignored: the run
\* works on the same script, unlock type and signature as without it, takes the
\* path and applies the time-lock and continuation checks that the unlock
\* type, the input since, the committed script and the outputs determine, never
\* ends with PreimageError, and hands the verifier the signature and the key
\* hash of that path, whatever the preimage is.
C36_PreimageIgnored ==
    NonClaimWithPreimage =>
      /\ m.preimage = ServedPreimage
      /\ m.pending_htlcs = HtlcCount(cell.committed)
      /\ m.witness_script_len = Len(cell.committed)
      /\ m.unlock_type = ServedUnlockType
      /\ m.signature = ServedSignature
      /\ m.path = ExpectedNonClaimPath
      /\ result # "PreimageError"
      /\ result = "InvalidSince" <=> ~NonClaimTimeLockMet
      /\ VerifierRan =>
            /\ ContinuationAccepted
            /\ HexDecode(m.exec_args[1][2]) = ServedSignature
            /\ HexDecode(m.exec_args[1][4]) = ExpectedPubkeyHash

\* The tests' case: an offered HTLC refunded after its expiry with a preimage
\* attached; the verifier runs on the local HTLC key.
C36_Witness ==
    /\ NonClaimWithPreimage
    /\ pc = "verifier"
    /\ m.path = "htlc_refund"
    /\ IsOffered(SelectedHtlc)
    /\ m.pubkey_hash = local_htlc_pubkey_hash(SelectedHtlc)

\* ------------------------------------------- output 0 of an untyped spend

\* The run is past the lock of output 0 on the HTLC path of an untyped cell.
UntypedOutputRead == UntypedHtlcPath /\ host.out_lock # None

\* The ways such a run may end, by the lock and the capacity of output 0 (and
\* the signature): the lock is not the successor's, the capacity cannot be
\* loaded or is not new_amount, or the verifier decides.
ExpectedUntypedResults ==
    IF host.out_lock[1] # ExpectedSuccessorLock
    THEN {"OutputLockError"}
    ELSE IF host.out_capacity = None
    THEN HostFailures
    ELSE IF WidenU64(host.out_capacity[1]) # m.new_amount
    THEN {"OutputCapacityError"}
    ELSE { IF VerifierAccepts(ServedSignature, TxHash, ExpectedHtlcPkh)
           THEN "Ok" ELSE "VerifierReject",
           "AuthError" }

\* C37: on the HTLC path with an untyped input the outcome depends on output 0
\* only through its lock and its capacity: the type script and the data of
\* output 0 are never loaded, no load of them can fail, and the result of a
\* finished run is the one its lock and capacity determine, so two
\* transactions that differ only in the type script or data of output 0 get
\* the same result.
C37_UntypedOutput ==
    /\ (HtlcDispatch /\ cell.type = None) =>
          /\ host.out_type = None
          /\ host.out_data = None
          /\ host.failed # None =>
                host.failed[1].call \notin {"load_cell_type(0, Output)",
                                            "load_cell_data(0, Output)"}
          /\ result \notin {"OutputTypeError", "OutputUdtAmountError"}
    /\ (UntypedOutputRead /\ pc = "done") => result \in ExpectedUntypedResults
    /\ (UntypedOutputRead /\ pc # "done") =>
          /\ host.out_lock[1] = ExpectedSuccessorLock
          /\ pc \in {"check_capacity", "exec", "verifier"}
          /\ pc # "check_capacity" =>
                /\ host.out_capacity # None
                /\ WidenU64(host.out_capacity[1]) = m.new_amount

\* An untyped spend is accepted: output 0 has the successor's lock and the
\* capacity left, and neither its type script nor its data was loaded.
C37_Witness ==
    /\ UntypedOutputRead
    /\ pc = "done"
    /\ result = "Ok"
    /\ host.out_capacity # None
    /\ host.out_type = None
    /\ host.out_data = None

\* ---------------------------------------------------- the base along a chain

\* The 48-byte base of a witness script: delay_epoch, local_delay_pkh,
\* revocation_pkh.
BaseOf(W) == Slice(W, 0, MIN_WITNESS_SCRIPT_LEN)

\* C34: in every successor commitment reachable by a sequence of accepted
\* HTLC-path spends the 48-byte base (delay_epoch, local_delay_pkh,
\* revocation_pkh) is byte-identical to the base of the original commitment: an
\* accepted spend leaves a successor with the base of the cell it spent, so
\* every cell of the chain, the current one included, has the base of the
\* first.
C34_BaseKept ==
    /\ AcceptedHtlcSpend =>
          BaseOf(CommittedBy(host.out_lock[1].args)) = BaseOf(cell.committed)
    /\ \A j \in 1..Len(ledger) :
          /\ ledger[j].base = ledger[1].base
          /\ BaseOf(cell.committed) = ledger[1].base

\* Two HTLCs were unlocked one after the other and the second successor is
\* being spent by its revocation key.
C34_Witness ==
    /\ Len(ledger) = 2
    /\ HtlcCount(cell.committed) = 0
    /\ pc = "verifier"
    /\ m.path = "revocation"
    /\ m.pubkey_hash = Slice(ledger[1].base, 28, 48)

\* ------------------------------------------------- the amounts along a chain

\* The sum of the payment amounts the first j spends of the chain settled to
\* the remote side.
RECURSIVE PaidUpTo(_)
PaidUpTo(j) ==
    IF j = 0 THEN Rep(0, 16) ELSE AddLE(PaidUpTo(j - 1), ledger[j].paid, 0)

\* No spend of the chain subtracted more than it found.
NoUnderflow ==
    \A j \in 1..Len(ledger) : CmpLE(ledger[j].paid, ledger[j].input) # "gt"

\* The amount before the j-th spend of the chain: the original input amount,
\* or what the spend before left.
AmountBefore(j) == IF j = 1 THEN ledger[1].input ELSE ledger[j - 1].output

\* C35: along a chain of accepted HTLC-path spends without amount underflow
\* the amount the current successor carries is the original input amount minus
\* the sum of payment_amount over the HTLCs settled so far to the remote side;
\* it never increases from one step to the next, and an HTLC settled to the
\* local side leaves it unchanged.  The successor of an untyped spend may be
\* given a type script, and the next spend then counts in the token amount of
\* its data, which no spend has checked.
C35_AsStated ==
    NoUnderflow =>
      \A j \in 1..Len(ledger) :
          /\ AddLE(ledger[j].output, PaidUpTo(j), 0) = ledger[1].input
          /\ CmpLE(ledger[j].output, AmountBefore(j)) # "gt"
          /\ ledger[j].paid = Rep(0, 16) => ledger[j].output = AmountBefore(j)

\* Every spend of the chain was of a cell of the same kind, typed or untyped.
KindKept == \A j \in 1..Len(ledger) : ledger[j].typed = ledger[1].typed

\* ------------------------------------------------ the reach of unlock_type

\* C31: for every committed HTLC index k with 0 <= k < n a witness whose
\* unlock_type byte is k is dispatched to the HTLC path for HTLC k, whatever n
\* is: the run does not take the settlement arm and does not end with
\* InvalidUnlockType, and the loop takes HTLC k, and no other, out of the
\* successor script.  The byte has one value, 0xFF, for the settlement arm and
\* for HTLC 255: in a commitment to 256 HTLCs that HTLC cannot be unlocked.
C31_AsStated ==
    (/\ DispatchReached
     /\ pc # "dispatch"
     /\ ServedUnlockType < HtlcCount(cell.committed)) =>
        /\ m.path \notin {"revocation", "local_delay"}
        /\ result # "InvalidUnlockType"
        /\ host.since # None => OnHtlcPath
        /\ PastHtlcLoop =>
              Concat(m.new_witness_script)
                  = ElideHtlc(cell.committed, ServedUnlockType)
=============================================================================
